---------------------------- MODULE Spec2Model ----------------------------
(***************************************************************************)
(* A model of scripts/build-single-papers-db.py: the record reconciliation *)
(* pipeline that loads source bundles, deduplicates their records with a   *)
(* union-find over identity keys, merges each group, refreshes records     *)
(* from OpenAlex metadata, assigns unique ids, sorts, and writes the       *)
(* output bundle and the manifest.                                         *)
(*                                                                         *)
(* Strings are sequences of one-character strings, so that the text        *)
(* normalisations are computed character by character as the code does.    *)
(* A letter outside ASCII is one of the two tokens of NonAsciiLetters.     *)
(* A missing dictionary key and an empty string are both the empty         *)
(* sequence: every read in the code is record.get(key, "").                *)
(***************************************************************************)
EXTENDS Integers, Sequences, FiniteSets, TLC

(***************************************************************************)
(* Text normalisation utilities.                                           *)
(***************************************************************************)

UPPER == << "A", "B", "C", "D", "E", "F", "G", "H", "I", "J", "K", "L", "M",
            "N", "O", "P", "Q", "R", "S", "T", "U", "V", "W", "X", "Y", "Z" >>

LOWER == << "a", "b", "c", "d", "e", "f", "g", "h", "i", "j", "k", "l", "m",
            "n", "o", "p", "q", "r", "s", "t", "u", "v", "w", "x", "y", "z" >>

DIGITS == { "0", "1", "2", "3", "4", "5", "6", "7", "8", "9" }

UpperSet == { UPPER[i] : i \in 1..26 }

LowerSet == { LOWER[i] : i \in 1..26 }

\* Letters outside ASCII (two CJK ideographs): alphabetic, caseless.
NonAsciiLetters == { "U+4E2D", "U+6587" }

LowerOf == [c \in UpperSet |-> LOWER[CHOOSE i \in 1..26 : UPPER[i] = c]]

UpperOf == [c \in LowerSet |-> UPPER[CHOOSE i \in 1..26 : LOWER[i] = c]]

\* str.lower() on one character.
LowerChar(c) ==
    IF c \in UpperSet THEN LowerOf[c] ELSE c

\* str.upper() on one character.
UpperChar(c) ==
    IF c \in LowerSet THEN UpperOf[c] ELSE c

ToLower(s) ==
    [i \in 1..Len(s) |-> LowerChar(s[i])]

ToUpper(s) ==
    [i \in 1..Len(s) |-> UpperChar(s[i])]

\* The regex class \s.
IsWs(c) ==
    c \in { " ", "\t", "\n" }

IsDigit(c) ==
    c \in DIGITS

\* str.isalpha() on one character.
IsAlpha(c) ==
    c \in UpperSet \/ c \in LowerSet \/ c \in NonAsciiLetters

\* "a" <= ch.lower() <= "z"
IsAsciiLetter(c) ==
    LowerChar(c) \in LowerSet

\* s[i:] of Python for a 1-based index i.
Drop(s, i) ==
    SubSeq(s, i, Len(s))

StartsWith(s, p) ==
    Len(s) >= Len(p) /\ SubSeq(s, 1, Len(p)) = p

Max(S) ==
    CHOOSE x \in S : \A y \in S : y <= x

Min(S) ==
    CHOOSE x \in S : \A y \in S : x <= y

\* re.sub(r"\s+", " ", s): the first character of a whitespace run becomes
\* one space, the rest of the run is dropped.
SquashWs(s) ==
    LET Keep(i) == ~(IsWs(s[i]) /\ i > 1 /\ IsWs(s[i - 1]))
        idxs == SelectSeq([i \in 1..Len(s) |-> i], Keep)
    IN  [k \in 1..Len(idxs) |-> IF IsWs(s[idxs[k]]) THEN " " ELSE s[idxs[k]]]

\* str.strip() of a string whose whitespace runs are already single spaces.
StripEnds(s) ==
    LET a == IF Len(s) > 0 /\ IsWs(s[1]) THEN 2 ELSE 1
        b == IF Len(s) > 0 /\ IsWs(s[Len(s)]) THEN Len(s) - 1 ELSE Len(s)
    IN  IF a > b THEN << >> ELSE SubSeq(s, a, b)

collapse_ws(value) ==
    StripEnds(SquashWs(value))

AMP_ENTITY == << "&", "a", "m", "p", ";" >>

LT_ENTITY == << "&", "l", "t", ";" >>

GT_ENTITY == << "&", "g", "t", ";" >>

\* The entity that starts at position i, or the empty string.
EntityAt(s, i) ==
    IF s[i] # "&" THEN << >>
    ELSE IF StartsWith(Drop(s, i), AMP_ENTITY) THEN AMP_ENTITY
    ELSE IF StartsWith(Drop(s, i), LT_ENTITY) THEN LT_ENTITY
    ELSE IF StartsWith(Drop(s, i), GT_ENTITY) THEN GT_ENTITY
    ELSE << >>

\* One html.unescape pass, for the entities &amp; &lt; &gt;: an entity is
\* replaced by its second character's meaning, its other characters dropped.
Unescape(s) ==
    IF \A i \in 1..Len(s) : s[i] # "&" THEN s
    ELSE LET Inside(i) == \E j \in 1..(i - 1) :
                              EntityAt(s, j) # << >> /\ i < j + Len(EntityAt(s, j))
             Keep(i) == ~Inside(i)
             idxs == SelectSeq([i \in 1..Len(s) |-> i], Keep)
             Out(i) == IF EntityAt(s, i) = AMP_ENTITY THEN "&"
                       ELSE IF EntityAt(s, i) = LT_ENTITY THEN "<"
                       ELSE IF EntityAt(s, i) = GT_ENTITY THEN ">"
                       ELSE s[i]
         IN  [k \in 1..Len(idxs) |-> Out(idxs[k])]

RECURSIVE UnescapePasses(_, _)
UnescapePasses(text, n) ==
    IF n = 0 THEN text
    ELSE LET next_text == Unescape(text)
         IN  IF next_text = text THEN next_text
             ELSE UnescapePasses(next_text, n - 1)

\* Up to four unescape passes, or until a fixed point.
full_unescape(value) ==
    UnescapePasses(value, 4)

\* The position of the first ">" after position i, or 0.
NextGt(s, i) ==
    LET later == { j \in (i + 1)..Len(s) : s[j] = ">" }
    IN  IF later = {} THEN 0 ELSE Min(later)

\* Whether a match of <[^>]+> starts at position i in a left-to-right scan:
\* "<", at least one other character before the next ">", and no earlier
\* "<" since the last ">" (that one would have started the match).
TagStart(s, i) ==
    /\ s[i] = "<"
    /\ NextGt(s, i) > i + 1
    /\ \A k \in 1..(i - 1) : s[k] = "<" => \E m \in (k + 1)..(i - 1) : s[m] = ">"

\* re.sub(r"<[^>]+>", " ", text)
StripTags(s) ==
    IF \A i \in 1..Len(s) : s[i] # "<" THEN s
    ELSE LET Inside(i) == \E p \in 1..(i - 1) : TagStart(s, p) /\ i <= NextGt(s, p)
             Keep(i) == ~Inside(i)
             idxs == SelectSeq([i \in 1..Len(s) |-> i], Keep)
         IN  [k \in 1..Len(idxs) |-> IF TagStart(s, idxs[k]) THEN " " ELSE s[idxs[k]]]

\* Unescape, drop tags, collapse whitespace.  The model's texts hold no
\* <script> or <style> block, on which the two block rules change nothing.
strip_markup(value) ==
    IF value = << >> THEN << >>
    ELSE collapse_ws(StripTags(full_unescape(value)))

IsKeyChar(c) ==
    c \in LowerSet \/ IsDigit(c) \/ c = " "

\* re.sub(r"[^a-z0-9 ]+", " ", text): a run of other characters becomes
\* one space.
KeepAlnum(s) ==
    LET Keep(i) == ~(~IsKeyChar(s[i]) /\ i > 1 /\ ~IsKeyChar(s[i - 1]))
        idxs == SelectSeq([i \in 1..Len(s) |-> i], Keep)
    IN  [k \in 1..Len(idxs) |-> IF IsKeyChar(s[idxs[k]]) THEN s[idxs[k]] ELSE " "]

soft_text_key(value) ==
    collapse_ws(KeepAlnum(ToLower(strip_markup(value))))

normalize_title_key(value) ==
    soft_text_key(value)

\* str.rstrip(chars)
RStrip(s, chars) ==
    LET kept == { i \in 1..Len(s) : s[i] \notin chars }
    IN  IF kept = {} THEN << >> ELSE SubSeq(s, 1, Max(kept))

\* The number of digits from position i on, at most max.
DigitRun(s, i, max) ==
    LET stop == { j \in i..Len(s) : ~IsDigit(s[j]) } \cup { Len(s) + 1, i + max }
    IN  Min(stop) - i

\* The end of the run of non-whitespace characters that holds position i.
NonWsEnd(s, i) ==
    Min({ j \in i..Len(s) : IsWs(s[j]) } \cup { Len(s) + 1 }) - 1

DOI_MIN_DIGITS == 4

DOI_MAX_DIGITS == 9

\* Whether 10\.\d{4,9}/\S+ matches at position i, and where the match ends
\* (0: no match).  The digits are followed by "/", so the greedy \d{4,9}
\* must take the whole run of digits.
DoiMatchEnd(s, i) ==
    IF ~StartsWith(Drop(s, i), << "1", "0", "." >>) THEN 0
    ELSE LET k == DigitRun(s, i + 3, DOI_MAX_DIGITS)
             slash == i + 3 + k
         IN  IF /\ k >= DOI_MIN_DIGITS
                /\ slash + 1 <= Len(s)
                /\ s[slash] = "/"
                /\ ~IsWs(s[slash + 1])
             THEN NonWsEnd(s, slash + 1)
             ELSE 0

\* re.search: the leftmost position where the pattern matches.
DoiSearch(s) ==
    LET starts == { i \in 1..Len(s) : s[i] = "1" /\ DoiMatchEnd(s, i) > 0 }
    IN  IF starts = {} THEN << >>
        ELSE SubSeq(s, Min(starts), DoiMatchEnd(s, Min(starts)))

HTTP_SCHEME == << "h", "t", "t", "p", ":", "/", "/" >>

HTTPS_SCHEME == << "h", "t", "t", "p", "s", ":", "/", "/" >>

DOI_ORG == << "d", "o", "i", ".", "o", "r", "g", "/" >>

DX_DOI_ORG == << "d", "x", "." >> \o DOI_ORG

DOI_COLON == << "d", "o", "i", ":" >>

\* re.sub(r"^https?://(?:dx\.)?doi\.org/", "", raw)
StripDoiUrlPrefix(raw) ==
    LET rest == IF StartsWith(raw, HTTPS_SCHEME) THEN Drop(raw, Len(HTTPS_SCHEME) + 1)
                ELSE IF StartsWith(raw, HTTP_SCHEME) THEN Drop(raw, Len(HTTP_SCHEME) + 1)
                ELSE << >>
    IN  IF StartsWith(rest, DX_DOI_ORG) THEN Drop(rest, Len(DX_DOI_ORG) + 1)
        ELSE IF StartsWith(rest, DOI_ORG) THEN Drop(rest, Len(DOI_ORG) + 1)
        ELSE raw

LStripWs(s) ==
    Drop(s, Min({ i \in 1..Len(s) : ~IsWs(s[i]) } \cup { Len(s) + 1 }))

\* re.sub(r"^doi:\s*", "", raw)
StripDoiColonPrefix(raw) ==
    IF StartsWith(raw, DOI_COLON) THEN LStripWs(Drop(raw, Len(DOI_COLON) + 1)) ELSE raw

normalize_doi(value) ==
    LET raw == ToLower(collapse_ws(value))
    IN  IF raw = << >> THEN << >>
        ELSE RStrip(DoiSearch(StripDoiColonPrefix(StripDoiUrlPrefix(raw))),
                    { ".", ",", ";", ")" })

\* raw.rsplit("/", 1)[-1]
LastSegment(s) ==
    Drop(s, Max({ i \in 1..Len(s) : s[i] = "/" } \cup { 0 }) + 1)

\* re.fullmatch(r"W\d+", suffix)
IsWorkId(suffix) ==
    /\ Len(suffix) >= 2
    /\ suffix[1] = "W"
    /\ \A i \in 2..Len(suffix) : IsDigit(suffix[i])

normalize_openalex_short_id(value) ==
    LET raw == RStrip(collapse_ws(value), { "/" })
        suffix == ToUpper(LastSegment(raw))
    IN  IF raw # << >> /\ IsWorkId(suffix) THEN suffix ELSE << >>

OPENALEX_URL_PREFIX ==
    << "h", "t", "t", "p", "s", ":", "/", "/", "o", "p", "e", "n", "a", "l", "e", "x", ".",
       "o", "r", "g", "/" >>

canonical_openalex_url(short_id) ==
    IF short_id # << >> THEN OPENALEX_URL_PREFIX \o short_id ELSE << >>

PLACEHOLDER_OPENALEX ==
    << "n", "o", " ", "a", "b", "s", "t", "r", "a", "c", "t", " ", "a", "v", "a", "i", "l", "a",
       "b", "l", "e", " ", "i", "n", " ", "o", "p", "e", "n", "a", "l", "e", "x", " ", "m", "e",
       "t", "a", "d", "a", "t", "a", "." >>

PLACEHOLDER_DISCOVERY ==
    << "n", "o", " ", "a", "b", "s", "t", "r", "a", "c", "t", " ", "a", "v", "a", "i", "l", "a",
       "b", "l", "e", " ", "i", "n", " ", "d", "i", "s", "c", "o", "v", "e", "r", "y", " ", "m",
       "e", "t", "a", "d", "a", "t", "a", "." >>

PLACEHOLDER_PUBS ==
    << "n", "o", " ", "a", "b", "s", "t", "r", "a", "c", "t", " ", "a", "v", "a", "i", "l", "a",
       "b", "l", "e", " ", "i", "n", " ", "l", "l", "v", "m", ".", "o", "r", "g", "/", "p", "u",
       "b", "s", " ", "m", "e", "t", "a", "d", "a", "t", "a", "." >>

PLACEHOLDER_LLVMORGPUBS ==
    << "n", "o", " ", "a", "b", "s", "t", "r", "a", "c", "t", " ", "a", "v", "a", "i", "l", "a",
       "b", "l", "e", " ", "i", "n", " ", "l", "l", "v", "m", "o", "r", "g", "p", "u", "b", "s",
       " ", "m", "e", "t", "a", "d", "a", "t", "a", "." >>

PLACEHOLDER_LLVM_ORG_PUBS ==
    << "n", "o", " ", "a", "b", "s", "t", "r", "a", "c", "t", " ", "a", "v", "a", "i", "l", "a",
       "b", "l", "e", " ", "i", "n", " ", "l", "l", "v", "m", " ", "o", "r", "g", " ", "p", "u",
       "b", "s", " ", "m", "e", "t", "a", "d", "a", "t", "a", "." >>

PLACEHOLDER_ABSTRACTS ==
    { PLACEHOLDER_OPENALEX, PLACEHOLDER_DISCOVERY, PLACEHOLDER_PUBS,
      PLACEHOLDER_LLVMORGPUBS, PLACEHOLDER_LLVM_ORG_PUBS }

PlaceholderKeys == { soft_text_key(v) : v \in PLACEHOLDER_ABSTRACTS }

is_placeholder_abstract(value) ==
    LET key == soft_text_key(value)
    IN  key = << >> \/ key \in PlaceholderKeys

(***************************************************************************)
(* Records, identity keys, scoring and merging.                            *)
(***************************************************************************)

\* parse_int's None: a citationCount that is absent or not a number.
None == -1

SRC_OPENALEX_DISCOVERY ==
    << "o", "p", "e", "n", "a", "l", "e", "x", "-", "d", "i", "s", "c", "o", "v", "e", "r", "y" >>

SRC_OPENALEX_LLVM_QUERY ==
    << "o", "p", "e", "n", "a", "l", "e", "x", "-", "l", "l", "v", "m", "-", "q", "u", "e", "r",
       "y" >>

SRC_LLVM_BLOG_WWW ==
    << "l", "l", "v", "m", "-", "b", "l", "o", "g", "-", "w", "w", "w" >>

SRC_LLVM_ORG_PUBS ==
    << "l", "l", "v", "m", "-", "o", "r", "g", "-", "p", "u", "b", "s" >>

TYPE_BLOG_POST == << "b", "l", "o", "g", "-", "p", "o", "s", "t" >>

TYPE_BLOG == << "b", "l", "o", "g" >>

\* SOURCE_PRIORITY.get(source, 0)
\* SOURCE_PRIORITY with the four priorities entered in the opposite order.
SOURCE_PRIORITY_Ascending(source) ==
    IF source = SRC_OPENALEX_DISCOVERY THEN 150
    ELSE IF source = SRC_OPENALEX_LLVM_QUERY THEN 200
    ELSE IF source = SRC_LLVM_BLOG_WWW THEN 250
    ELSE IF source = SRC_LLVM_ORG_PUBS THEN 300
    ELSE 0

SOURCE_PRIORITY(source) ==
    IF source = SRC_OPENALEX_DISCOVERY THEN 300
    ELSE IF source = SRC_OPENALEX_LLVM_QUERY THEN 250
    ELSE IF source = SRC_LLVM_BLOG_WWW THEN 200
    ELSE IF source = SRC_LLVM_ORG_PUBS THEN 150
    ELSE 0

\* The scalar fields of merge_records, in its order.
scalar_fields ==
    << "id", "title", "year", "publication", "venue", "type", "abstract", "contentFormat",
       "content", "paperUrl", "sourceUrl", "openalexId", "doi", "source", "sourceName" >>

list_fields == << "tags", "keywords", "matchedAuthors", "matchedSubprojects" >>

Range(s) ==
    { s[i] : i \in 1..Len(s) }

\* A record none of whose keys is set.
EmptyRecord ==
    [ id |-> << >>, title |-> << >>, year |-> << >>, publication |-> << >>,
      venue |-> << >>, type |-> << >>, abstract |-> << >>, contentFormat |-> << >>,
      content |-> << >>, paperUrl |-> << >>, sourceUrl |-> << >>, openalexId |-> << >>,
      doi |-> << >>, source |-> << >>, sourceName |-> << >>, authors |-> << >>,
      tags |-> << >>, keywords |-> << >>, matchedAuthors |-> << >>,
      matchedSubprojects |-> << >>, citationCount |-> None ]

OA_KEY_PREFIX == << "o", "a", ":" >>

DOI_KEY_PREFIX == << "d", "o", "i", ":" >>

BLOG_KEY_PREFIX == << "b", "l", "o", "g", ":" >>

TITLE_KEY_PREFIX == << "t", "i", "t", "l", "e", ":" >>

\* is_blog of record_identity_keys.
is_blog(record) ==
    \/ ToLower(collapse_ws(record.source)) = SRC_LLVM_BLOG_WWW
    \/ ToLower(collapse_ws(record.type)) \in { TYPE_BLOG_POST, TYPE_BLOG }

\* record_identity_keys without the test that keeps blog records out of
\* the title key: every record with a year and a title gets one.
record_identity_keys_TitleKeyForBlogs(record) ==
    LET openalex_short == normalize_openalex_short_id(record.openalexId)
        doi == normalize_doi(record.doi)
        blog_url == IF collapse_ws(record.paperUrl) # << >>
                    THEN collapse_ws(record.paperUrl)
                    ELSE collapse_ws(record.sourceUrl)
        year == collapse_ws(record.year)
        title == normalize_title_key(record.title)
    IN  (IF openalex_short # << >> THEN << OA_KEY_PREFIX \o openalex_short >> ELSE << >>)
        \o (IF doi # << >> THEN << DOI_KEY_PREFIX \o doi >> ELSE << >>)
        \o (IF is_blog(record) /\ blog_url # << >>
            THEN << BLOG_KEY_PREFIX \o ToLower(blog_url) >> ELSE << >>)
        \o (IF year # << >> /\ title # << >>
            THEN << TITLE_KEY_PREFIX \o year \o << ":" >> \o title >> ELSE << >>)

\* The identity keys of one record, in the order the code appends them.
record_identity_keys(record) ==
    LET openalex_short == normalize_openalex_short_id(record.openalexId)
        doi == normalize_doi(record.doi)
        blog_url == IF collapse_ws(record.paperUrl) # << >>
                    THEN collapse_ws(record.paperUrl)
                    ELSE collapse_ws(record.sourceUrl)
        year == collapse_ws(record.year)
        title == normalize_title_key(record.title)
    IN  (IF openalex_short # << >> THEN << OA_KEY_PREFIX \o openalex_short >> ELSE << >>)
        \o (IF doi # << >> THEN << DOI_KEY_PREFIX \o doi >> ELSE << >>)
        \o (IF is_blog(record) /\ blog_url # << >>
            THEN << BLOG_KEY_PREFIX \o ToLower(blog_url) >> ELSE << >>)
        \o (IF ~is_blog(record) /\ year # << >> /\ title # << >>
            THEN << TITLE_KEY_PREFIX \o year \o << ":" >> \o title >> ELSE << >>)

\* Python's tuple comparison a > b for two tuples of the same length.
TupleGreater(a, b) ==
    \E k \in 1..Len(a) : a[k] > b[k] /\ \A m \in 1..(k - 1) : a[m] = b[m]

\* The number of authors with a non-empty name.
AuthorCount(authors) ==
    Cardinality({ i \in 1..Len(authors) : collapse_ws(authors[i].name) # << >> })

score_record(record) ==
    << SOURCE_PRIORITY(collapse_ws(record.source)),
       IF normalize_openalex_short_id(record.openalexId) # << >> THEN 1 ELSE 0,
       IF normalize_doi(record.doi) # << >> THEN 1 ELSE 0,
       IF is_placeholder_abstract(record.abstract) THEN 0 ELSE 1,
       IF collapse_ws(record.title) # << >> THEN 1 ELSE 0,
       AuthorCount(record.authors),
       IF record.citationCount = None THEN 0 ELSE record.citationCount,
       Len(record.tags) + Len(record.keywords) >>

RECURSIVE DedupeFrom(_, _, _)
\* dedupe_list from position i on; seen: the lowercased values kept so far.
DedupeFrom(values, i, seen) ==
    IF i > Len(values) THEN << >>
    ELSE LET clean == collapse_ws(values[i])
             key == ToLower(clean)
         IN  IF clean = << >> \/ key \in seen
             THEN DedupeFrom(values, i + 1, seen)
             ELSE << clean >> \o DedupeFrom(values, i + 1, seen \cup { key })

dedupe_list(values) ==
    DedupeFrom(values, 1, {})

\* re.fullmatch(r"[A-Za-z]\.?", name)
IsInitialOnly(name) ==
    /\ Len(name) \in { 1, 2 }
    /\ IsAsciiLetter(name[1])
    /\ Len(name) = 2 => name[2] = "."

LONG_NAME_LEN == 6

\* quality(authors) of merge_authors.
AuthorQuality(authors) ==
    LET names == [i \in 1..Len(authors) |-> collapse_ws(authors[i].name)]
        valid == { i \in 1..Len(authors) : names[i] # << >> }
    IN  << Cardinality(valid),
           Cardinality({ i \in valid : Len(names[i]) >= LONG_NAME_LEN }),
           0 - Cardinality({ i \in valid : IsInitialOnly(names[i]) }) >>

\* merge_authors that takes the incoming list on a tie as well.
merge_authors_TiesTakeIncoming(existing, incoming) ==
    IF existing = << >> THEN incoming
    ELSE IF incoming = << >> THEN existing
    ELSE IF ~TupleGreater(AuthorQuality(existing), AuthorQuality(incoming)) THEN incoming
    ELSE existing

merge_authors(existing, incoming) ==
    IF existing = << >> THEN incoming
    ELSE IF incoming = << >> THEN existing
    ELSE IF TupleGreater(AuthorQuality(incoming), AuthorQuality(existing)) THEN incoming
    ELSE existing

\* One scalar field when a placeholder abstract of the base is kept.
MergeScalar_KeepsPlaceholder(field, base_value, incoming_value) ==
    IF collapse_ws(base_value) = << >> /\ collapse_ws(incoming_value) # << >>
    THEN incoming_value
    ELSE base_value

\* One scalar field of merge_records.
MergeScalar(field, base_value, incoming_value) ==
    LET current == collapse_ws(base_value)
        candidate == collapse_ws(incoming_value)
    IN  IF current = << >> /\ candidate # << >> THEN incoming_value
        ELSE IF /\ field = "abstract"
                /\ is_placeholder_abstract(current)
                /\ candidate # << >>
                /\ ~is_placeholder_abstract(candidate)
             THEN incoming_value
        ELSE base_value

NonBlank(values) ==
    SelectSeq(values, LAMBDA v : collapse_ws(v) # << >>)

\* One list-union field of merge_records.
MergeList(base_value, incoming_value) ==
    LET values == NonBlank(base_value) \o NonBlank(incoming_value)
    IN  IF values # << >> THEN dedupe_list(values) ELSE base_value

\* The citation count when the count of incoming always takes the place
\* of the one of the base.
MergeCitations_LastWins(current_citations, incoming_citations) ==
    IF incoming_citations # None THEN incoming_citations ELSE current_citations

MergeCitations(current_citations, incoming_citations) ==
    IF /\ incoming_citations # None
       /\ (current_citations = None \/ incoming_citations > current_citations)
    THEN incoming_citations
    ELSE current_citations

merge_records(base, incoming) ==
    LET out == [f \in DOMAIN base |->
                    IF f \in Range(scalar_fields)
                    THEN MergeScalar(f, base[f], incoming[f])
                    ELSE IF f = "authors" THEN merge_authors(base[f], incoming[f])
                    ELSE IF f \in Range(list_fields) THEN MergeList(base[f], incoming[f])
                    ELSE MergeCitations(base[f], incoming[f])]
        openalex_short == normalize_openalex_short_id(out.openalexId)
    IN  IF openalex_short # << >>
        THEN [out EXCEPT !.openalexId = canonical_openalex_url(openalex_short)]
        ELSE out

(***************************************************************************)
(* The disjoint-set structure of dedupe_records.  Record indices are       *)
(* 1-based here and 0-based in the code.                                   *)
(***************************************************************************)

DSU_init(size) ==
    [ parent |-> [i \in 1..size |-> i], rank |-> [i \in 1..size |-> 0] ]

RECURSIVE DSU_find(_, _)
\* find with path halving: the root of x and the parents as find leaves them.
DSU_find(parent, x) ==
    IF parent[x] = x THEN [ parent |-> parent, root |-> x ]
    ELSE LET halved == [parent EXCEPT ![x] = parent[parent[x]]]
         IN  DSU_find(halved, halved[x])

\* DSU.union that links the two elements themselves instead of their roots.
DSU_union_NoFind(dsu, a, b) ==
    IF a = b THEN dsu
    ELSE [ parent |-> [dsu.parent EXCEPT ![b] = a], rank |-> dsu.rank ]

DSU_union(dsu, a, b) ==
    LET fa == DSU_find(dsu.parent, a)
        fb == DSU_find(fa.parent, b)
        ra == fa.root
        rb == fb.root
        parent == fb.parent
        rank == dsu.rank
    IN  IF ra = rb THEN [ parent |-> parent, rank |-> rank ]
        ELSE IF rank[ra] < rank[rb]
             THEN [ parent |-> [parent EXCEPT ![ra] = rb], rank |-> rank ]
        ELSE IF rank[ra] > rank[rb]
             THEN [ parent |-> [parent EXCEPT ![rb] = ra], rank |-> rank ]
        ELSE [ parent |-> [parent EXCEPT ![rb] = ra],
               rank |-> [rank EXCEPT ![ra] = rank[ra] + 1] ]

RECURSIVE UnionKeys_SkipAfterUnion(_, _, _, _)
\* The inner loop of dedupe_records leaving the loop after the first union,
\* so that the later keys of the record are neither united nor registered.
UnionKeys_SkipAfterUnion(st, idx, keys, k) ==
    IF k > Len(keys) THEN st
    ELSE IF keys[k] \in DOMAIN st.owner
         THEN [st EXCEPT !.dsu = DSU_union(st.dsu, idx, st.owner[keys[k]])]
    ELSE UnionKeys_SkipAfterUnion([st EXCEPT !.owner = @ @@ (keys[k] :> idx)],
                                  idx, keys, k + 1)

RECURSIVE UnionKeys(_, _, _, _)
\* The inner loop of dedupe_records for record idx, from key k on; st holds
\* the DSU and the owner map.
UnionKeys(st, idx, keys, k) ==
    IF k > Len(keys) THEN st
    ELSE IF keys[k] \in DOMAIN st.owner
         THEN UnionKeys([st EXCEPT !.dsu = DSU_union(st.dsu, idx, st.owner[keys[k]])],
                        idx, keys, k + 1)
         ELSE UnionKeys([st EXCEPT !.owner = st.owner @@ (keys[k] :> idx)],
                        idx, keys, k + 1)

\* groups.setdefault(root, []).append(idx): groups keeps insertion order.
AddToGroup(groups, root, idx) ==
    IF \E g \in 1..Len(groups) : groups[g].root = root
    THEN [g \in 1..Len(groups) |->
              IF groups[g].root = root
              THEN [groups[g] EXCEPT !.members = Append(groups[g].members, idx)]
              ELSE groups[g]]
    ELSE Append(groups, [ root |-> root, members |-> << idx >> ])

\* The last member with a greatest score.
BestMember_LastGreatest(records, members) ==
    LET top == { k \in 1..Len(members) :
                    \A m \in 1..Len(members) :
                        ~TupleGreater(score_record(records[members[m]]),
                                      score_record(records[members[k]])) }
    IN  members[Max(top)]

\* max(members, key=score_record): the first member with a greatest score.
BestMember(records, members) ==
    LET top == { k \in 1..Len(members) :
                    \A m \in 1..Len(members) :
                        ~TupleGreater(score_record(records[members[m]]),
                                      score_record(records[members[k]])) }
    IN  members[Min(top)]

RECURSIVE FoldMembers(_, _, _, _, _)
\* The merge loop of one group, from member k on.
FoldMembers(result, records, members, best, k) ==
    IF k > Len(members) THEN result
    ELSE IF members[k] = best THEN FoldMembers(result, records, members, best, k + 1)
    ELSE FoldMembers(merge_records(result, records[members[k]]),
                     records, members, best, k + 1)

\* The canonical record of one group.
MergeGroup(records, members) ==
    LET best == BestMember(records, members)
    IN  FoldMembers(records[best], records, members, best, 1)

(***************************************************************************)
(* The texts of the input records.                                         *)
(***************************************************************************)

TITLE_SCENARIO_A ==
    << "L", "L", "V", "M", " ", "I", "R", " ", "O", "p", "t", "i", "m", "i", "z", "a", "t", "i",
       "o", "n" >>

TITLE_SCENARIO_B ==
    << "L", "L", "V", "M", " ", "I", "r", " ", "O", "p", "t", "i", "m", "i", "z", "a", "t", "i",
       "o", "n" >>

YEAR_2020 ==
    << "2", "0", "2", "0" >>

YEAR_2019 ==
    << "2", "0", "1", "9" >>

DOI_SCENARIO_A ==
    << "1", "0", ".", "1", "/", "a", "b", "c" >>

DOI_SCENARIO_B ==
    << "1", "0", ".", "1", "/", "A", "B", "C" >>

ABSTRACT_SCENARIO_A ==
    << "N", "o", " ", "a", "b", "s", "t", "r", "a", "c", "t", " ", "a", "v", "a", "i", "l", "a",
       "b", "l", "e", " ", "i", "n", " ", "l", "l", "v", "m", ".", "o", "r", "g", "/", "p", "u",
       "b", "s", " ", "m", "e", "t", "a", "d", "a", "t", "a", "." >>

ABSTRACT_SCENARIO_B ==
    << "W", "e", " ", "p", "r", "e", "s", "e", "n", "t", " ", "a", " ", "n", "e", "w", " ", "I",
       "R", " ", "o", "p", "t", "i", "m", "i", "z", "a", "t", "i", "o", "n", " ", "p", "a", "s",
       "s", "." >>

BLOG_URL_1 ==
    << "h", "t", "t", "p", ":", "/", "/", "b", "/", "1" >>

BLOG_URL_1_UPPER ==
    << "H", "T", "T", "P", ":", "/", "/", "B", "/", "1" >>

BLOG_URL_2 ==
    << "h", "t", "t", "p", ":", "/", "/", "b", "/", "2" >>

TYPE_BLOG_CAPITAL ==
    << "B", "l", "o", "g" >>

OPENALEX_W1_BARE ==
    << "W", "1" >>

OPENALEX_W1_URL ==
    << "h", "t", "t", "p", "s", ":", "/", "/", "o", "p", "e", "n", "a", "l", "e", "x", ".", "o",
       "r", "g", "/", "w", "1", "/" >>

DOI_PREFIXED ==
    << "d", "o", "i", ":", "1", "0", ".", "1", "2", "3", "4", "/", "A" >>

DOI_PLAIN ==
    << "1", "0", ".", "1", "2", "3", "4", "/", "a" >>

TITLE_MARKUP ==
    << "<", "i", ">", "T", "<", "/", "i", ">", " ", "x" >>

TITLE_SPACED ==
    << "t", " ", " ", "X" >>

ABSTRACT_ENTITY ==
    << "x", " ", "&", "a", "m", "p", ";", " ", "y" >>

NAME_J_SMITH ==
    << "J", ".", " ", "S", "m", "i", "t", "h" >>

NAME_JANE_SMITH ==
    << "J", "a", "n", "e", " ", "S", "m", "i", "t", "h" >>

NAME_ROBERT_LEE ==
    << "R", "o", "b", "e", "r", "t", " ", "L", "e", "e" >>

TAG_LLVM ==
    << "L", "L", "V", "M" >>

TAG_LLVM_LOWER ==
    << "l", "l", "v", "m", " " >>

TAG_IR ==
    << "I", "R" >>

(***************************************************************************)
(* Bundles and the records of load_source_records.                         *)
(***************************************************************************)

\* A bundle file: its source object and its papers value, which is a list
\* of objects, or absent, or some other JSON value.
Bundle(slug, name, kind, items) ==
    [ slug |-> slug, name |-> name, papers |-> [ kind |-> kind, items |-> items ] ]

\* isinstance(papers, list)
IsList(papers) ==
    papers.kind = "list"

ScenarioRecordA ==
    [EmptyRecord EXCEPT !.title = TITLE_SCENARIO_A, !.year = YEAR_2020,
                        !.doi = DOI_SCENARIO_A, !.abstract = ABSTRACT_SCENARIO_A,
                        !.source = SRC_LLVM_ORG_PUBS]

ScenarioRecordB ==
    [EmptyRecord EXCEPT !.title = TITLE_SCENARIO_B, !.year = YEAR_2020,
                        !.doi = DOI_SCENARIO_B, !.abstract = ABSTRACT_SCENARIO_B,
                        !.source = SRC_OPENALEX_DISCOVERY, !.citationCount = 5]

\* Two blog posts with the title and year of the scenario and different URLs.
BlogPost1 ==
    [EmptyRecord EXCEPT !.title = TITLE_SCENARIO_A, !.year = YEAR_2020,
                        !.paperUrl = BLOG_URL_1, !.openalexId = OPENALEX_W1_BARE]

BlogPost2 ==
    [EmptyRecord EXCEPT !.title = TITLE_SCENARIO_A, !.year = YEAR_2020,
                        !.sourceUrl = BLOG_URL_2, !.doi = DOI_PLAIN,
                        !.type = TYPE_BLOG_POST]

\* A blog post known by its type only, with the URL of BlogPost1 in capitals.
BlogPost3 ==
    [EmptyRecord EXCEPT !.title = TITLE_SCENARIO_A, !.year = YEAR_2020,
                        !.sourceUrl = BLOG_URL_1_UPPER, !.type = TYPE_BLOG_CAPITAL]

Paper1 ==
    [EmptyRecord EXCEPT !.title = TITLE_MARKUP, !.year = YEAR_2019,
                        !.openalexId = OPENALEX_W1_URL, !.doi = DOI_PREFIXED,
                        !.authors = << [ name |-> NAME_J_SMITH, affiliation |-> << >> ] >>,
                        !.tags = << TAG_LLVM, TAG_LLVM_LOWER >>, !.citationCount = 3]

Paper2 ==
    [EmptyRecord EXCEPT !.title = TITLE_SPACED, !.year = YEAR_2019,
                        !.abstract = ABSTRACT_ENTITY,
                        !.authors = << [ name |-> NAME_JANE_SMITH, affiliation |-> << >> ],
                                       [ name |-> NAME_ROBERT_LEE, affiliation |-> << >> ] >>,
                        !.tags = << TAG_IR >>]

\* An OpenAlex id that names no work: the id of an author.
OPENALEX_AUTHOR_ID == << "A", "9" >>

\* A record with no identity key.
Paper3 ==
    [EmptyRecord EXCEPT !.abstract = ABSTRACT_SCENARIO_B,
                        !.openalexId = OPENALEX_AUTHOR_ID]

BundleA == Bundle(SRC_LLVM_ORG_PUBS, << >>, "list", << ScenarioRecordA >>)

BundleB == Bundle(SRC_OPENALEX_DISCOVERY, << >>, "list", << ScenarioRecordB >>)

BundleBlog == Bundle(SRC_LLVM_BLOG_WWW, << >>, "list", << BlogPost1, BlogPost2 >>)

BundleBlog3 == Bundle(<< >>, << >>, "list", << BlogPost3 >>)

BundleQuery == Bundle(SRC_OPENALEX_LLVM_QUERY, << >>, "list", << Paper1 >>)

YEAR_UNDATED == << "n", ".", "d", "." >>

TITLE_UNDATED == << "L", "o", "o", "p", " ", "n", "o", "t", "e", "s" >>

\* A record whose year is not a year.
Paper6 ==
    [EmptyRecord EXCEPT !.title = TITLE_UNDATED, !.year = YEAR_UNDATED]

BundleOther == Bundle(<< >>, << >>, "list", << Paper2, Paper3, Paper6 >>)

\* Malformed bundles: no papers key, and a papers value that is not a list.
BundleNoPapers == Bundle(SRC_LLVM_ORG_PUBS, << >>, "absent", << >>)

BundleBadPapers == Bundle(SRC_LLVM_ORG_PUBS, << >>, "object", << >>)

BundlePool ==
    { BundleA, BundleB, BundleBlog, BundleBlog3, BundleQuery, BundleOther,
      BundleNoPapers, BundleBadPapers }

\* The most bundle paths of one run.
MaxBundles == 3

\* The record of a paper when the load leaves openalexId and doi as the
\* bundle has them.
LoadRecord_RawIdentifiers(paper, bundle_slug, bundle_name) ==
    LET source == IF collapse_ws(paper.source) # << >>
                  THEN collapse_ws(paper.source) ELSE bundle_slug
        source_name == IF collapse_ws(paper.sourceName) # << >>
                       THEN collapse_ws(paper.sourceName) ELSE bundle_name
    IN  [paper EXCEPT
            !.source = IF source # << >> THEN source ELSE @,
            !.sourceName = IF source_name # << >> THEN source_name ELSE @]

\* The body of the paper loop of load_source_records for one paper.
LoadRecord(paper, bundle_slug, bundle_name) ==
    LET source == IF collapse_ws(paper.source) # << >>
                  THEN collapse_ws(paper.source) ELSE bundle_slug
        source_name == IF collapse_ws(paper.sourceName) # << >>
                       THEN collapse_ws(paper.sourceName) ELSE bundle_name
        openalex_short == normalize_openalex_short_id(paper.openalexId)
        doi == normalize_doi(paper.doi)
    IN  [paper EXCEPT
            !.source = IF source # << >> THEN source ELSE @,
            !.sourceName = IF source_name # << >> THEN source_name ELSE @,
            !.openalexId = IF openalex_short # << >>
                           THEN canonical_openalex_url(openalex_short) ELSE @,
            !.doi = IF doi # << >> THEN doi ELSE @]

\* The records one bundle adds: none when papers is not a list (the loop
\* goes on to the next path).
LoadBundleRecords(payload) ==
    IF ~IsList(payload.papers) THEN << >>
    ELSE [i \in 1..Len(payload.papers.items) |->
              LoadRecord(payload.papers.items[i],
                         collapse_ws(payload.slug), collapse_ws(payload.name))]

(***************************************************************************)
(* Output assembly: ensure_unique_ids and sort_papers.                     *)
(***************************************************************************)

DIGIT_CHARS == << "0", "1", "2", "3", "4", "5", "6", "7", "8", "9" >>

RECURSIVE PyStrInt(_)
\* str(n) of an integer n >= 0.
PyStrInt(n) ==
    IF n < 10 THEN << DIGIT_CHARS[n + 1] >>
    ELSE PyStrInt(n \div 10) \o << DIGIT_CHARS[(n % 10) + 1] >>

ID_OPENALEX_PREFIX == << "o", "p", "e", "n", "a", "l", "e", "x", "-" >>

ID_PAPER == << "p", "a", "p", "e", "r" >>

\* base_id of ensure_unique_ids: the id of the paper, else one made from
\* its OpenAlex short id, else "paper".
BaseId(paper) ==
    LET base_id == collapse_ws(paper.id)
        openalex_short == ToLower(normalize_openalex_short_id(paper.openalexId))
    IN  IF base_id # << >> THEN base_id
        ELSE IF openalex_short # << >> THEN ID_OPENALEX_PREFIX \o openalex_short
        ELSE ID_PAPER

RECURSIVE FreeCandidate(_, _, _, _)
\* while candidate in seen: candidate = f"{base_id}-{suffix}"; suffix += 1
FreeCandidate(base_id, candidate, suffix, seen) ==
    IF candidate \notin seen THEN candidate
    ELSE FreeCandidate(base_id, base_id \o << "-" >> \o PyStrInt(suffix), suffix + 1, seen)

\* AssignId trying the suffix 2 only.
AssignId_OneSuffix(paper, seen) ==
    IF BaseId(paper) \in seen THEN BaseId(paper) \o << "-", "2" >> ELSE BaseId(paper)

\* The id one iteration of ensure_unique_ids gives to paper.
AssignId(paper, seen) ==
    FreeCandidate(BaseId(paper), BaseId(paper), 2, seen)

RECURSIVE EnsureFrom(_, _, _)
EnsureFrom(papers, i, seen) ==
    IF i > Len(papers) THEN papers
    ELSE LET candidate == AssignId(papers[i], seen)
         IN  EnsureFrom([papers EXCEPT ![i].id = candidate], i + 1, seen \cup { candidate })

ensure_unique_ids(papers) ==
    EnsureFrom(papers, 1, {})

\* The characters of the model in code point order.
CODE_POINT_ORDER ==
    << "\t", "\n", " ", "!", "#", "$", "%", "&", "'", "(", ")", "*", "+", ",", "-",
       ".", "/" >> \o DIGIT_CHARS \o << ":", ";", "<", "=", ">", "?", "@" >> \o UPPER
    \o << "[", "]", "^", "_" >> \o LOWER \o << "{", "|", "}", "~", "U+4E2D", "U+6587" >>

Ord(c) ==
    CHOOSE i \in 1..Len(CODE_POINT_ORDER) : CODE_POINT_ORDER[i] = c

\* a < b for two Python strings.
StrLess(a, b) ==
    \E i \in 1..(Len(b)) :
        /\ i <= Len(a) + 1
        /\ \A k \in 1..(i - 1) : a[k] = b[k]
        /\ (i = Len(a) + 1 \/ Ord(a[i]) < Ord(b[i]))

YEAR_UNKNOWN == << "0", "0", "0", "0" >>

\* re.fullmatch(r"\d{4}", year)
IsFourDigits(year) ==
    Len(year) = 4 /\ \A i \in 1..4 : IsDigit(year[i])

\* key(p) of sort_papers.
SortKey(p) ==
    LET year == collapse_ws(p.year)
    IN  << IF IsFourDigits(year) THEN year ELSE YEAR_UNKNOWN,
           collapse_ws(ToLower(p.title)),
           collapse_ws(p.id) >>

\* a < b for two sort keys (tuples of three strings).
KeyLess(a, b) ==
    \E k \in 1..3 : StrLess(a[k], b[k]) /\ \A m \in 1..(k - 1) : a[m] = b[m]

\* papers.sort(key=key): ascending keys.
sort_papers_Ascending(papers) ==
    LET n == Len(papers)
        keys == [i \in 1..n |-> SortKey(papers[i])]
        Before(i) == { j \in 1..n : \/ KeyLess(keys[j], keys[i])
                                    \/ (keys[j] = keys[i] /\ j < i) }
    IN  [pos \in 1..n |-> papers[CHOOSE i \in 1..n : Cardinality(Before(i)) = pos - 1]]

\* papers.sort(key=key, reverse=True): descending keys; papers with equal
\* keys stay in the order they had.
sort_papers(papers) ==
    LET n == Len(papers)
        keys == [i \in 1..n |-> SortKey(papers[i])]
        Before(i) == { j \in 1..n : \/ KeyLess(keys[i], keys[j])
                                    \/ (keys[j] = keys[i] /\ j < i) }
    IN  [pos \in 1..n |-> papers[CHOOSE i \in 1..n : Cardinality(Before(i)) = pos - 1]]

ID_A == << "a" >>

ID_A_2 == << "a", "-", "2" >>

ID_A_SPACED == << " ", "a", " " >>

ID_OPENALEX_W123 == ID_OPENALEX_PREFIX \o << "w", "1", "2", "3" >>

OPENALEX_W123_URL == OPENALEX_URL_PREFIX \o << "W", "1", "2", "3" >>

IdRecordPool ==
    { [EmptyRecord EXCEPT !.id = ID_A],
      [EmptyRecord EXCEPT !.id = ID_A_2],
      [EmptyRecord EXCEPT !.id = ID_A_SPACED, !.openalexId = OPENALEX_W123_URL],
      [EmptyRecord EXCEPT !.id = ID_OPENALEX_W123],
      [EmptyRecord EXCEPT !.openalexId = OPENALEX_W123_URL],
      [EmptyRecord EXCEPT !.openalexId = DOI_PLAIN],
      EmptyRecord }

MaxIdRecords == 3

(***************************************************************************)
(* OpenAlex works and apply_openalex_refresh.  A work is a record of the   *)
(* selected fields; the nested objects are flattened into one record, and  *)
(* a field nobody set is the empty string, which the code reads as it      *)
(* reads a missing key.                                                    *)
(***************************************************************************)

\* JSON null where the code tells it from a missing key.
JSON_NULL == << "null" >>

PY_NONE_TEXT == << "N", "o", "n", "e" >>

\* str(value) of a JSON string or null.
PyStr(value) ==
    IF value = JSON_NULL THEN PY_NONE_TEXT ELSE value

\* value or ""
OrEmpty(value) ==
    IF value = JSON_NULL THEN << >> ELSE value

EmptyWork ==
    [ id |-> << >>, title |-> << >>, type |-> << >>, doi |-> << >>,
      publication_year |-> 0, abstract_inverted_index |-> << >>, authorships |-> << >>,
      cited_by_count |-> None, updated_date |-> << >>,
      primary_source |-> << >>, primary_pdf_url |-> << >>,
      primary_landing_page_url |-> << >>, best_oa_pdf_url |-> << >>,
      best_oa_landing_page_url |-> << >>, oa_url |-> << >>, locations |-> << >>,
      volume |-> << >>, issue |-> << >> ]

META_NONE == << "n", "o", "n", "e" >>

META_NULL == << "n", "u", "l", "l" >>

META_NAN == << "n", "a", "n" >>

META_N_A == << "n", "/", "a" >>

_clean_meta_value(value) ==
    LET clean == collapse_ws(value)
    IN  IF ToLower(clean) \in { << >>, META_NONE, META_NULL, META_NAN, META_N_A }
        THEN << >> ELSE clean

RECURSIVE JoinWords(_, _)
\* " ".join(words) from word i on.
JoinWords(words, i) ==
    IF i > Len(words) THEN << >>
    ELSE IF i = Len(words) THEN words[i]
    ELSE words[i] \o << " " >> \o JoinWords(words, i + 1)

\* index_obj: the (token, positions) items of the inverted index, in order;
\* a later item overwrites an earlier one at the same position.
decode_abstract_inverted_index(index_obj) ==
    LET all == UNION { Range(index_obj[k].positions) : k \in 1..Len(index_obj) }
        max_pos == IF all = {} THEN -1 ELSE Max(all)
        Writers(pos) == { k \in 1..Len(index_obj) :
                            /\ collapse_ws(index_obj[k].token) # << >>
                            /\ pos \in Range(index_obj[k].positions) }
        words == [p \in 1..(max_pos + 1) |->
                    IF Writers(p - 1) = {} THEN << >>
                    ELSE collapse_ws(index_obj[Max(Writers(p - 1))].token)]
    IN  IF max_pos < 0 THEN << >> ELSE collapse_ws(JoinWords(words, 1))

VOL_PREFIX == << "V", "o", "l", ".", " " >>

ISSUE_PREFIX == << "I", "s", "s", "u", "e", " " >>

ISSUE_OPEN == << " ", "(", "I", "s", "s", "u", "e", " " >>

VENUE_SEPARATOR == << " ", "|", " " >>

\* The pair (publication, venue).
pick_publication_and_venue(work) ==
    LET primary == _clean_meta_value(PyStr(work.primary_source))
        named == { k \in 1..Len(work.locations) :
                     _clean_meta_value(PyStr(work.locations[k])) # << >> }
        publication == IF primary # << >> THEN primary
                       ELSE IF named = {} THEN << >>
                       ELSE _clean_meta_value(PyStr(work.locations[Min(named)]))
        volume == _clean_meta_value(PyStr(work.volume))
        issue == _clean_meta_value(PyStr(work.issue))
        detail == IF volume # << >>
                  THEN VOL_PREFIX \o volume
                       \o (IF issue # << >> THEN ISSUE_OPEN \o issue \o << ")" >> ELSE << >>)
                  ELSE IF issue # << >> THEN ISSUE_PREFIX \o issue
                  ELSE << >>
    IN  << publication,
           IF publication # << >> /\ detail # << >>
           THEN publication \o VENUE_SEPARATOR \o detail
           ELSE publication \o detail >>

PDF_SUFFIX == << ".", "p", "d", "f" >>

\* re.search(r"\.pdf(?:$|[?#])", url, flags=re.IGNORECASE)
HasPdfSuffix(url) ==
    \E i \in 1..Len(url) :
        /\ i + 3 <= Len(url)
        /\ ToLower(SubSeq(url, i, i + 3)) = PDF_SUFFIX
        /\ (i + 3 = Len(url) \/ url[i + 4] \in { "?", "#" })

\* The pair (paper_url, source_url).
pick_urls(work) ==
    LET values == << work.best_oa_pdf_url, work.primary_pdf_url, work.oa_url,
                     work.best_oa_landing_page_url, work.primary_landing_page_url,
                     work.doi >>
        urls == [k \in 1..Len(values) |-> collapse_ws(OrEmpty(values[k]))]
        candidates == SelectSeq(urls, LAMBDA url : url # << >>)
        pdfs == { k \in 1..Len(candidates) : HasPdfSuffix(candidates[k]) }
        paper_url == IF pdfs # {} THEN candidates[Min(pdfs)]
                     ELSE IF candidates # << >> THEN candidates[1]
                     ELSE << >>
        by_doi == collapse_ws(OrEmpty(work.doi))
        landing == IF OrEmpty(work.primary_landing_page_url) # << >>
                   THEN work.primary_landing_page_url
                   ELSE OrEmpty(work.best_oa_landing_page_url)
        by_landing == collapse_ws(landing)
        source_url == IF by_doi # << >> THEN by_doi
                      ELSE IF by_landing # << >> THEN by_landing
                      ELSE collapse_ws(OrEmpty(work.id))
    IN  << paper_url, IF source_url = paper_url THEN << >> ELSE source_url >>

TYPE_DISSERTATION == << "d", "i", "s", "s", "e", "r", "t", "a", "t", "i", "o", "n" >>

TYPE_THESIS == << "t", "h", "e", "s", "i", "s" >>

TYPE_RESEARCH_PAPER ==
    << "r", "e", "s", "e", "a", "r", "c", "h", "-", "p", "a", "p", "e", "r" >>

classify_type(openalex_type, existing_type) ==
    LET t == ToLower(collapse_ws(openalex_type))
        fallback == collapse_ws(existing_type)
    IN  IF t = TYPE_DISSERTATION THEN TYPE_THESIS
        ELSE IF t # << >> THEN TYPE_RESEARCH_PAPER
        ELSE IF fallback # << >> THEN fallback
        ELSE TYPE_RESEARCH_PAPER

\* The texts of the model hold no character that NFKD changes and no
\* combining mark, so what is left of normalize_name_key is soft_text_key.
normalize_name_key(value) ==
    collapse_ws(KeepAlnum(ToLower(strip_markup(value))))

\* str.strip(chars)
StripChars(s, chars) ==
    LET kept == { i \in 1..Len(s) : s[i] \notin chars }
    IN  IF kept = {} THEN << >> ELSE SubSeq(s, Min(kept), Max(kept))

\* re.sub(r"\s+,", ",", s) when mark is ",", re.sub(r"\s+\)", ")", s) when
\* it is ")": the whitespace run before the mark goes.
DropWsBefore(s, mark) ==
    LET Gone(i) == /\ IsWs(s[i])
                   /\ \E j \in (i + 1)..Len(s) :
                        s[j] = mark /\ \A k \in i..(j - 1) : IsWs(s[k])
    IN  SelectSeq([i \in 1..Len(s) |-> IF Gone(i) THEN << >> ELSE << s[i] >>],
                  LAMBDA c : c # << >>)

\* re.sub(r"\(\s+", "(", s)
DropWsAfterParen(s) ==
    LET Gone(i) == /\ IsWs(s[i])
                   /\ \E j \in 1..(i - 1) :
                        s[j] = "(" /\ \A k \in (j + 1)..i : IsWs(s[k])
    IN  SelectSeq([i \in 1..Len(s) |-> IF Gone(i) THEN << >> ELSE << s[i] >>],
                  LAMBDA c : c # << >>)

\* A sequence of one-character sequences back to a string.
Chars(cells) ==
    [i \in 1..Len(cells) |-> cells[i][1]]

MISSING_AFFILIATION_TOKENS ==
    { << >>, << "-" >>, << "-", "-" >>, META_NONE, META_NULL, META_NAN, META_N_A,
      << "n", "a" >>, << "u", "n", "k", "n", "o", "w", "n" >>,
      << "n", "o", " ", "a", "f", "f", "i", "l", "i", "a", "t", "i", "o", "n" >>,
      << "n", "o", "t", " ", "a", "v", "a", "i", "l", "a", "b", "l", "e" >> }

normalize_affiliation(value) ==
    LET stripped == StripChars(strip_markup(value), { " ", ",", ";", "|" })
        commas == Chars(DropWsBefore(stripped, ","))
        opened == Chars(DropWsAfterParen(commas))
        clean == Chars(DropWsBefore(opened, ")"))
    IN  IF ToLower(clean) \in MISSING_AFFILIATION_TOKENS THEN << >> ELSE clean

\* existing_aff_by_name as the list of its assignments, in order: the pairs
\* (key, aff) of the existing authors.
ExistingAffByName(existing_authors) ==
    [a \in 1..Len(existing_authors) |->
        [ key |-> normalize_name_key(collapse_ws(existing_authors[a].name)),
          aff |-> normalize_affiliation(existing_authors[a].affiliation) ]]

\* existing_aff_by_name[name_key] when the key is in the dictionary, else "":
\* an assignment is made "if key and aff", and the last one stays.
ExistingAff(pairs, name_key) ==
    LET made == { a \in 1..Len(pairs) :
                    /\ pairs[a].key = name_key
                    /\ pairs[a].key # << >>
                    /\ pairs[a].aff # << >> }
    IN  IF made = {} THEN << >> ELSE pairs[Max(made)].aff

\* The loop over the institutions: the first candidate that is not empty.
FirstCandidate(candidates) ==
    LET named == { m \in 1..Len(candidates) : candidates[m] # << >> }
    IN  IF named = {} THEN << >> ELSE candidates[Min(named)]

\* "affiliation = existing_aff_by_name[name_key]" when no institution gave one.
AffiliationOr(affiliation, existing) ==
    IF affiliation # << >> THEN affiliation ELSE existing

\* The authorships the loop appends: named, keyed, key not seen before.
KeptAuthorships(names) ==
    LET Kept(k) == /\ names[k].name # << >>
                   /\ names[k].key # << >>
                   /\ \A j \in 1..(k - 1) :
                        ~(names[j].name # << >> /\ names[j].key = names[k].key)
    IN  SelectSeq([k \in 1..Len(names) |-> k], Kept)

AuthorNames(ships) ==
    [k \in 1..Len(ships) |->
        LET name == collapse_ws(PyStr(ships[k].display_name))
        IN  [ name |-> name, key |-> normalize_name_key(name) ]]

AuthorsOut(ships, names, kept, pairs) ==
    [n \in 1..Len(kept) |->
        [ name |-> names[kept[n]].name,
          affiliation |->
            AffiliationOr(
                FirstCandidate([m \in 1..Len(ships[kept[n]].institutions) |->
                    normalize_affiliation(PyStr(ships[kept[n]].institutions[m]))]),
                ExistingAff(pairs, names[kept[n]].key)) ]]

\* extract_openalex_authors with keep_existing_nonempty_affiliations=True.
\* An authorship is the display name of its author and the display names
\* of its institutions.
extract_openalex_authors(work, existing_authors) ==
    AuthorsOut(work.authorships,
               AuthorNames(work.authorships),
               KeptAuthorships(AuthorNames(work.authorships)),
               ExistingAffByName(existing_authors))

\* "if value: paper[key] = value"
Assigned(value, old) ==
    IF value # << >> THEN value ELSE old

\* str(work.get("publication_year") or "")
YearText(publication_year) ==
    IF publication_year = 0 THEN << >> ELSE PyStrInt(publication_year)

\* "if re.fullmatch(r"\d{4}", openalex_year): paper["year"] = openalex_year"
AssignedYear(openalex_year, old) ==
    IF IsFourDigits(openalex_year) THEN openalex_year ELSE old

\* parse_int of a JSON integer or null is the integer or None;
\* "if citation_count is not None: paper["citationCount"] = max(0, ...)".
AssignedCount(citation_count, old) ==
    IF citation_count # None THEN Max({ 0, citation_count }) ELSE old

\* One iteration of the loop of apply_openalex_refresh for a paper whose
\* work is known, up to the test of enable_landing_fallback.
RefreshPaper(paper, work, short_id) ==
    [paper EXCEPT
        !.title = Assigned(strip_markup(PyStr(work.title)), @),
        !.abstract =
            Assigned(decode_abstract_inverted_index(work.abstract_inverted_index), @),
        !.authors = Assigned(extract_openalex_authors(work, paper.authors), @),
        !.year = AssignedYear(YearText(work.publication_year), @),
        !.publication = Assigned(pick_publication_and_venue(work)[1], @),
        !.venue = Assigned(pick_publication_and_venue(work)[2], @),
        !.paperUrl = Assigned(pick_urls(work)[1], @),
        !.sourceUrl = Assigned(pick_urls(work)[2], @),
        !.doi = Assigned(normalize_doi(PyStr(work.doi)), @),
        !.citationCount = AssignedCount(work.cited_by_count, @),
        !.type = Assigned(classify_type(PyStr(work.type), paper.type), @),
        !.openalexId = canonical_openalex_url(short_id)]

\* apply_openalex_refresh with enable_landing_fallback false, as it is in
\* every run that passes --skip-landing-fallback or --skip-network: each
\* iteration ends at the test of the flag.  works_by_id maps short ids to
\* works.
apply_openalex_refresh(papers, works_by_id) ==
    [i \in 1..Len(papers) |->
        LET short_id == normalize_openalex_short_id(papers[i].openalexId)
        IN  IF short_id = << >> \/ short_id \notin DOMAIN works_by_id THEN papers[i]
            ELSE RefreshPaper(papers[i], works_by_id[short_id], short_id)]

(***************************************************************************)
(* JSON text.  The text json.dumps writes is kept as the sequence of its   *)
(* tokens (punctuation, strings, numbers, the final newline); the white    *)
(* space between tokens follows from them and is left out.  An object is   *)
(* written with the keys that hold a value, in the order of EmptyRecord.   *)
(***************************************************************************)

Punct(c) == [ t |-> "punct", v |-> << c >> ]

Str(chars) == [ t |-> "string", v |-> chars ]

Num(n) == [ t |-> "number", v |-> PyStrInt(n) ]

NEWLINE == [ t |-> "newline", v |-> << >> ]

RECURSIVE JoinComma(_, _)
\* The token runs of the members of a list or object from member i on,
\* with a comma between two members.
JoinComma(runs, i) ==
    IF i > Len(runs) THEN << >>
    ELSE IF i = Len(runs) THEN runs[i]
    ELSE runs[i] \o << Punct(",") >> \o JoinComma(runs, i + 1)

JsonList(runs) ==
    << Punct("[") >> \o JoinComma(runs, 1) \o << Punct("]") >>

JsonObject(runs) ==
    << Punct("{") >> \o JoinComma(runs, 1) \o << Punct("}") >>

Member(key, run) ==
    << Str(key) >> \o << Punct(":") >> \o run

JsonStrings(values) ==
    JsonList([i \in 1..Len(values) |-> << Str(values[i]) >>])

KEY_NAME == << "n", "a", "m", "e" >>

KEY_AFFILIATION == << "a", "f", "f", "i", "l", "i", "a", "t", "i", "o", "n" >>

JsonAuthor(author) ==
    JsonObject(<< Member(KEY_NAME, << Str(author.name) >>),
                  Member(KEY_AFFILIATION, << Str(author.affiliation) >>) >>)

\* The name of a key as a string of characters.
KeyChars ==
    [ id |-> << "i", "d" >>, title |-> << "t", "i", "t", "l", "e" >>,
      year |-> << "y", "e", "a", "r" >>,
      publication |-> << "p", "u", "b", "l", "i", "c", "a", "t", "i", "o", "n" >>,
      venue |-> << "v", "e", "n", "u", "e" >>, type |-> << "t", "y", "p", "e" >>,
      abstract |-> << "a", "b", "s", "t", "r", "a", "c", "t" >>,
      contentFormat |-> << "c", "o", "n", "t", "e", "n", "t", "F", "o", "r", "m", "a", "t" >>,
      content |-> << "c", "o", "n", "t", "e", "n", "t" >>,
      paperUrl |-> << "p", "a", "p", "e", "r", "U", "r", "l" >>,
      sourceUrl |-> << "s", "o", "u", "r", "c", "e", "U", "r", "l" >>,
      openalexId |-> << "o", "p", "e", "n", "a", "l", "e", "x", "I", "d" >>,
      doi |-> << "d", "o", "i" >>, source |-> << "s", "o", "u", "r", "c", "e" >>,
      sourceName |-> << "s", "o", "u", "r", "c", "e", "N", "a", "m", "e" >>,
      authors |-> << "a", "u", "t", "h", "o", "r", "s" >>,
      tags |-> << "t", "a", "g", "s" >>,
      keywords |-> << "k", "e", "y", "w", "o", "r", "d", "s" >>,
      matchedAuthors |->
          << "m", "a", "t", "c", "h", "e", "d", "A", "u", "t", "h", "o", "r", "s" >>,
      matchedSubprojects |->
          << "m", "a", "t", "c", "h", "e", "d", "S", "u", "b", "p", "r", "o", "j", "e", "c",
             "t", "s" >>,
      citationCount |->
          << "c", "i", "t", "a", "t", "i", "o", "n", "C", "o", "u", "n", "t" >>,
      slug |-> << "s", "l", "u", "g" >>, name |-> KEY_NAME,
      url |-> << "u", "r", "l" >>, papers |-> << "p", "a", "p", "e", "r", "s" >>,
      paperFiles |-> << "p", "a", "p", "e", "r", "F", "i", "l", "e", "s" >>,
      dataVersion |-> << "d", "a", "t", "a", "V", "e", "r", "s", "i", "o", "n" >> ]

\* The members of a paper that hold a value.
JsonPaper(paper) ==
    LET scalars == [k \in 1..Len(scalar_fields) |->
                       IF paper[scalar_fields[k]] = << >> THEN << >>
                       ELSE Member(KeyChars[scalar_fields[k]],
                                   << Str(paper[scalar_fields[k]]) >>)]
        authors == IF paper.authors = << >> THEN << >>
                   ELSE Member(KeyChars.authors,
                               JsonList([a \in 1..Len(paper.authors) |->
                                            JsonAuthor(paper.authors[a])]))
        lists == [k \in 1..Len(list_fields) |->
                     IF paper[list_fields[k]] = << >> THEN << >>
                     ELSE Member(KeyChars[list_fields[k]],
                                 JsonStrings(paper[list_fields[k]]))]
        citations == IF paper.citationCount = None THEN << >>
                     ELSE Member(KeyChars.citationCount, << Num(paper.citationCount) >>)
        runs == scalars \o << authors >> \o lists \o << citations >>
    IN  JsonObject(SelectSeq(runs, LAMBDA run : run # << >>))

OUTPUT_SLUG ==
    << "c", "o", "m", "b", "i", "n", "e", "d", "-", "a", "l", "l", "-", "p", "a", "p", "e",
       "r", "s", "-", "d", "e", "d", "u", "p", "e", "d" >>

OUTPUT_SOURCE_NAME ==
    << "C", "o", "m", "b", "i", "n", "e", "d", " ", "P", "a", "p", "e", "r", "s", " ", "(", "s",
       "i", "n", "g", "l", "e", " ", "c", "a", "n", "o", "n", "i", "c", "a", "l", " ", "d", "a",
       "t", "a", "b", "a", "s", "e", ")" >>

OUTPUT_SOURCE_URL ==
    << "h", "t", "t", "p", "s", ":", "/", "/", "l", "l", "v", "m", ".", "o", "r", "g", "/",
       "p", "u", "b", "s", "/" >>

\* json.dumps(bundle, indent=2, ensure_ascii=False) + "\n" of the bundle
\* main builds around the papers.
BundleText(papers) ==
    JsonObject(<< Member(KeyChars.source,
                         JsonObject(<< Member(KeyChars.slug, << Str(OUTPUT_SLUG) >>),
                                       Member(KeyChars.name, << Str(OUTPUT_SOURCE_NAME) >>),
                                       Member(KeyChars.url, << Str(OUTPUT_SOURCE_URL) >>) >>)),
                  Member(KeyChars.papers,
                         JsonList([i \in 1..Len(papers) |-> JsonPaper(papers[i])])) >>)
    \o << NEWLINE >>

\* A path that does not exist, and a file with its text.
NoFile == [ exists |-> FALSE, text |-> << >> ]

File(text) == [ exists |-> TRUE, text |-> text ]

\* save_json writing every time, whatever is on disk.
save_json_AlwaysWrite(file, text) ==
    [ returned |-> TRUE, wrote |-> TRUE, file |-> File(text) ]

\* save_json returning what it should and writing nothing.
save_json_NeverWrites(file, text) ==
    [ returned |-> text # (IF file.exists THEN file.text ELSE << >>),
      wrote |-> FALSE, file |-> file ]

\* save_json on a path whose state is file, text being the serialized
\* payload: what it returns, whether it wrote, and the state of the path.
save_json(file, text) ==
    LET existing == IF file.exists THEN file.text ELSE << >>
    IN  IF text = existing
        THEN [ returned |-> FALSE, wrote |-> FALSE, file |-> file ]
        ELSE [ returned |-> TRUE, wrote |-> TRUE, file |-> File(text) ]

(***************************************************************************)
(* load_source_records and dedupe_records as main calls them: the loops of *)
(* the state machine above, run to their end.                              *)
(***************************************************************************)

RECURSIVE LoadFrom(_, _)
LoadFrom(paths, i) ==
    IF i > Len(paths) THEN << >>
    ELSE LoadBundleRecords(paths[i]) \o LoadFrom(paths, i + 1)

load_source_records(paths) ==
    LoadFrom(paths, 1)

RECURSIVE UnionFrom(_, _, _)
\* The union loop from record i on.
UnionFrom(st, source_records, i) ==
    IF i > Len(source_records) THEN st
    ELSE UnionFrom(UnionKeys(st, i, record_identity_keys(source_records[i]), 1),
                   source_records, i + 1)

RECURSIVE GroupFrom(_, _, _)
\* The grouping loop from index i on; st holds the parents and the groups.
GroupFrom(st, size, i) ==
    IF i > size THEN st
    ELSE LET found == DSU_find(st.parent, i)
         IN  GroupFrom([ parent |-> found.parent,
                         groups |-> AddToGroup(st.groups, found.root, i) ],
                       size, i + 1)

dedupe_records(source_records) ==
    IF source_records = << >> THEN << >>
    ELSE LET size == Len(source_records)
             united == UnionFrom([ dsu |-> DSU_init(size), owner |-> << >> ],
                                 source_records, 1)
             grouped == GroupFrom([ parent |-> united.dsu.parent, groups |-> << >> ],
                                  size, 1).groups
         IN  [g \in 1..Len(grouped) |-> MergeGroup(source_records, grouped[g].members)]

\* sorted(values) of a set of distinct strings.
SortedStrings(values) ==
    [pos \in 1..Cardinality(values) |->
        CHOOSE v \in values : Cardinality({ w \in values : StrLess(w, v) }) = pos - 1]

\* openalex_ids of main: the short ids of the deduped records, sorted.
OpenAlexIds(deduped_records) ==
    SortedStrings({ normalize_openalex_short_id(deduped_records[i].openalexId) :
                      i \in 1..Len(deduped_records) } \ { << >> })

(***************************************************************************)
(* The OpenAlex cache directory and fetch_openalex_works.  A payload is    *)
(* the parsed JSON document of a response or of a cache file: a results    *)
(* list of works, or one work, or text json.load cannot read.              *)
(***************************************************************************)

ResultsPayload(works) == [ kind |-> "results", works |-> works ]

WorkPayload(work) == [ kind |-> "work", works |-> << work >> ]

UnreadablePayload == [ kind |-> "unreadable", works |-> << >> ]

\* The works _iter_works yields.
_iter_works(payload) ==
    IF payload.kind = "results" THEN payload.works
    ELSE IF payload.kind = "work" /\ payload.works[1].id # JSON_NULL THEN payload.works
    ELSE << >>

RECURSIVE CacheWorksFrom(_, _)
\* The works of the cache files from file i on, in the order the scan meets
\* them; a file load_json cannot read is passed over.
CacheWorksFrom(cache_files, i) ==
    IF i > Len(cache_files) THEN << >>
    ELSE (IF cache_files[i].payload.kind = "unreadable" THEN << >>
          ELSE _iter_works(cache_files[i].payload))
         \o CacheWorksFrom(cache_files, i + 1)

\* The dict a list of works fills, short id -> work, over the ids of
\* wanted: the first work of an id when first_wins, the last one otherwise.
WorksById(works, wanted, first_wins) ==
    LET ShortId(k) == normalize_openalex_short_id(PyStr(works[k].id))
        At(id) == { k \in 1..Len(works) : ShortId(k) = id }
        ids == ({ ShortId(k) : k \in 1..Len(works) } \ { << >> }) \cap wanted
    IN  [id \in ids |-> works[IF first_wins THEN Min(At(id)) ELSE Max(At(id))]]

\* cache_files: the *.json files of the cache directory in path order.  The
\* first work met for a wanted id is kept.
load_openalex_works_from_cache(cache_files, wanted_ids) ==
    WorksById(CacheWorksFrom(cache_files, 1), wanted_ids, TRUE)

\* The short ids of the works of a payload.
PayloadIds(payload) ==
    { normalize_openalex_short_id(PyStr(_iter_works(payload)[k].id)) :
        k \in 1..Len(_iter_works(payload)) }

\* out after the loop over the works of a fetched payload: a later work
\* of an id replaces an earlier one.
FetchedWorks(payload) ==
    WorksById(_iter_works(payload), PayloadIds(payload), FALSE)

\* dict.update: the entries of new replace and extend those of old.
DictUpdate(old, new) ==
    [k \in DOMAIN old \cup DOMAIN new |-> IF k \in DOMAIN new THEN new[k] ELSE old[k]]

\* The split with the larger half first.
SplitBatch_LargerHalfFirst(batch) ==
    << SubSeq(batch, 1, (Len(batch) + 1) \div 2),
       SubSeq(batch, (Len(batch) + 1) \div 2 + 1, Len(batch)) >>

\* No split: the failed batch is put back whole, its first id last.
SplitBatch_PutBack(batch) ==
    << Tail(batch) \o << Head(batch) >> >>

\* [batch[:half], batch[half:]] with half = len(batch) // 2
SplitBatch(batch) ==
    << SubSeq(batch, 1, Len(batch) \div 2),
       SubSeq(batch, Len(batch) \div 2 + 1, Len(batch)) >>

\* _chunks(values, size) as a list.
_chunks(values, size) ==
    [k \in 1..((Len(values) + size - 1) \div size) |->
        SubSeq(values, (k - 1) * size + 1, Min({ k * size, Len(values) }))]

RECURSIVE JoinBar(_, _)
\* "|".join(ids) from id i on.
JoinBar(ids, i) ==
    IF i > Len(ids) THEN << >>
    ELSE IF i = Len(ids) THEN ids[i]
    ELSE ids[i] \o << "|" >> \o JoinBar(ids, i + 1)

\* The name of the cache file of a batch.  The code names it by the first
\* twenty hex digits of the SHA-1 of "|".join(sorted(batch_ids)); the model
\* names it by that joined text, as if the digest had no collision.
_stable_openalex_batch_cache_path(batch_ids) ==
    JoinBar(SortedStrings(Range(batch_ids)), 1)

\* _save_openalex_batch_to_cache: the directory afterwards and whether the
\* file was written.  The texts of two payloads are equal when the
\* payloads are.
_save_openalex_batch_to_cache(cache_files, batch_ids, payload) ==
    LET path == _stable_openalex_batch_cache_path(batch_ids)
        at == { i \in 1..Len(cache_files) : cache_files[i].path = path }
        file == [ path |-> path, payload |-> payload ]
        earlier == SelectSeq(cache_files, LAMBDA f : StrLess(f.path, path))
        later == SelectSeq(cache_files, LAMBDA f : StrLess(path, f.path))
    IN  IF at # {} /\ cache_files[Min(at)].payload = payload
        THEN [ written |-> FALSE, cache_files |-> cache_files ]
        ELSE [ written |-> TRUE, cache_files |-> earlier \o << file >> \o later ]

(***************************************************************************)
(* The manifest and update_manifest.  The payload of the manifest is the   *)
(* list of its entries in file order; the value of an entry is a list of   *)
(* strings, of length one when the entry is a string.                      *)
(***************************************************************************)

Entry(key, kind, value) == [ key |-> key, kind |-> kind, value |-> value ]

\* json.dumps(payload, indent=2, ensure_ascii=False) + "\n" of a manifest.
ManifestText(payload) ==
    JsonObject([k \in 1..Len(payload) |->
                   Member(payload[k].key,
                          IF payload[k].kind = "list" THEN JsonStrings(payload[k].value)
                          ELSE << Str(payload[k].value[1]) >>)])
    \o << NEWLINE >>

\* json.load of the text of a manifest: an object whose values are strings
\* and lists of strings.
ParseManifest(text) ==
    LET colons == SelectSeq([i \in 1..Len(text) |-> i], LAMBDA i : text[i] = Punct(":"))
        Close(i) == Min({ j \in (i + 1)..Len(text) : text[j] = Punct("]") })
        Items(i) == SelectSeq(SubSeq(text, i + 2, Close(i) - 1),
                              LAMBDA token : token.t = "string")
    IN  [k \in 1..Len(colons) |->
            LET i == colons[k]
            IN  IF text[i + 1] = Punct("[")
                THEN Entry(text[i - 1].v, "list",
                           [m \in 1..Len(Items(i)) |-> Items(i)[m].v])
                ELSE Entry(text[i - 1].v, "string", << text[i + 1].v >>)]

\* load_json(manifest_path) if manifest_path.exists() else {}
LoadManifest(file) ==
    IF file.exists THEN ParseManifest(file.text) ELSE << >>

HasKey(payload, key) ==
    \E k \in 1..Len(payload) : payload[k].key = key

\* payload[key], for a key the payload has.
Get(payload, key) ==
    payload[CHOOSE k \in 1..Len(payload) : payload[k].key = key]

\* payload[key] = value: in place for a key the payload has, at the end
\* for a new one.
Put(payload, entry) ==
    IF HasKey(payload, entry.key)
    THEN [k \in 1..Len(payload) |-> IF payload[k].key = entry.key THEN entry ELSE payload[k]]
    ELSE Append(payload, entry)

\* update_manifest that stamps the version whether or not it is forced to.
update_manifest_AlwaysBump(file, output_bundle_name, data_version, force_bump_data_version) ==
    LET payload == LoadManifest(file)
        named == Put(payload, Entry(KeyChars.paperFiles, "list", << output_bundle_name >>))
        after == Put(named, Entry(KeyChars.dataVersion, "string", << data_version >>))
    IN  [ changed |-> after # payload,
          file |-> IF after # payload THEN save_json(file, ManifestText(after)).file
                   ELSE file,
          saved |-> after # payload,
          text |-> ManifestText(after) ]

\* update_manifest that adds the output name to the paperFiles it finds
\* instead of putting it in their place.
update_manifest_AppendFile(file, output_bundle_name, data_version, force_bump_data_version) ==
    LET payload == LoadManifest(file)
        files_before == IF /\ HasKey(payload, KeyChars.paperFiles)
                           /\ Get(payload, KeyChars.paperFiles).kind = "list"
                        THEN Get(payload, KeyChars.paperFiles).value
                        ELSE << >>
        files_after == IF \E k \in 1..Len(files_before) : files_before[k] = output_bundle_name
                       THEN files_before
                       ELSE Append(files_before, output_bundle_name)
        files_differ == files_before # files_after
        named == IF files_differ
                 THEN Put(payload, Entry(KeyChars.paperFiles, "list", files_after))
                 ELSE payload
        bump == /\ force_bump_data_version
                /\ ~( /\ HasKey(named, KeyChars.dataVersion)
                      /\ Get(named, KeyChars.dataVersion).kind = "string"
                      /\ Get(named, KeyChars.dataVersion).value = << data_version >> )
        after == IF bump
                 THEN Put(named, Entry(KeyChars.dataVersion, "string", << data_version >>))
                 ELSE named
        changed == files_differ \/ bump
    IN  [ changed |-> changed,
          file |-> IF changed THEN save_json(file, ManifestText(after)).file ELSE file,
          saved |-> changed,
          text |-> ManifestText(after) ]

\* update_manifest on a manifest path whose state is file: whether it
\* changed the payload, the state of the path afterwards, whether it
\* called save_json and the text it serialized.
update_manifest(file, output_bundle_name, data_version, force_bump_data_version) ==
    LET payload == LoadManifest(file)
        files_before == IF /\ HasKey(payload, KeyChars.paperFiles)
                           /\ Get(payload, KeyChars.paperFiles).kind = "list"
                        THEN Get(payload, KeyChars.paperFiles).value
                        ELSE << >>
        files_after == << output_bundle_name >>
        files_differ == files_before # files_after
        named == IF files_differ
                 THEN Put(payload, Entry(KeyChars.paperFiles, "list", files_after))
                 ELSE payload
        bump == /\ force_bump_data_version
                /\ ~( /\ HasKey(named, KeyChars.dataVersion)
                      /\ Get(named, KeyChars.dataVersion).kind = "string"
                      /\ Get(named, KeyChars.dataVersion).value = << data_version >> )
        after == IF bump
                 THEN Put(named, Entry(KeyChars.dataVersion, "string", << data_version >>))
                 ELSE named
        changed == files_differ \/ bump
    IN  [ changed |-> changed,
          file |-> IF changed THEN save_json(file, ManifestText(after)).file ELSE file,
          saved |-> changed,
          text |-> ManifestText(after) ]

\* %02d
TwoDigits(n) ==
    IF n < 10 THEN << "0" >> \o PyStrInt(n) ELSE PyStrInt(n)

YEAR_MONTH == << "2", "0", "2", "4", "-", "0", "1", "-" >>

\* date.isoformat() of a day of January 2024.
IsoDate(day) ==
    YEAR_MONTH \o TwoDigits(day)

DATA_VERSION_SUFFIX ==
    << "-", "p", "a", "p", "e", "r", "s", "-", "s", "i", "n", "g", "l", "e", "-", "d", "b",
       "-", "o", "p", "e", "n", "a", "l", "e", "x", "-", "v", "1" >>

OUTPUT_NAME == OUTPUT_SLUG \o << ".", "j", "s", "o", "n" >>

CATALOG_VERSION_SUFFIX ==
    << "-", "l", "l", "v", "m", "-", "o", "r", "g", "-", "p", "u", "b", "s", "-", "f", "u",
       "l", "l" >>

CATALOG_BUNDLE_NAME ==
    << "l", "l", "v", "m", "-", "o", "r", "g", "-", "p", "u", "b", "s", ".", "j", "s", "o",
       "n" >>

\* The manifest build-papers-catalog.py writes on the given day.
CatalogManifest(day) ==
    << Entry(KeyChars.dataVersion, "string", << IsoDate(day) \o CATALOG_VERSION_SUFFIX >>),
       Entry(KeyChars.paperFiles, "list", << CATALOG_BUNDLE_NAME >>) >>

(***************************************************************************)
(* The inputs of the whole pipeline: more records, the works the OpenAlex  *)
(* API knows, and the cache files a run may find.                          *)
(***************************************************************************)

WORK_ID_W1 ==
    << "h", "t", "t", "p", "s", ":", "/", "/", "o", "p", "e", "n", "a", "l", "e", "x", ".", "o",
       "r", "g", "/", "W", "1" >>

WORK_ID_W2 ==
    << "h", "t", "t", "p", "s", ":", "/", "/", "o", "p", "e", "n", "a", "l", "e", "x", ".", "o",
       "r", "g", "/", "W", "2" >>

WORK_TITLE_W1 ==
    << "<", "b", ">", "N", "e", "w", "<", "/", "b", ">", " ", "T", "i", "t", "l", "e" >>

WORK_TITLE_CACHED ==
    << "C", "a", "c", "h", "e", "d", " ", "t", "i", "t", "l", "e" >>

WORK_DOI_W1 ==
    << "h", "t", "t", "p", "s", ":", "/", "/", "d", "o", "i", ".", "o", "r", "g", "/", "1", "0",
       ".", "5", "5", "5", "5", "/", "X", "Y", "Z", "." >>

TYPE_ARTICLE ==
    << "a", "r", "t", "i", "c", "l", "e" >>

TYPE_DISSERTATION_CAPITAL ==
    << "D", "i", "s", "s", "e", "r", "t", "a", "t", "i", "o", "n" >>

WORK_PDF_URL ==
    << "h", "t", "t", "p", ":", "/", "/", "h", "/", "p", ".", "P", "D", "F", "?", "x" >>

WORK_LANDING_URL ==
    << "h", "t", "t", "p", ":", "/", "/", "h", "/", "l" >>

WORK_SOURCE_NAME ==
    << "L", "L", "V", "M", " ", "C", "o", "n", "f" >>

VOLUME_3 ==
    << "3" >>

ISSUE_2 ==
    << "2" >>

INSTITUTION_UNKNOWN ==
    << "U", "n", "k", "n", "o", "w", "n" >>

INSTITUTION_MIT ==
    << " ", "M", "I", "T", " ", ",", " ", "(", " ", "U", "S", " ", ")", " ", ";" >>

NAME_JANE_SMITH_CAPITALS ==
    << "J", "A", "N", "E", " ", " ", "S", "M", "I", "T", "H" >>

NAME_R_LEE ==
    << "R", ".", " ", "L", "e", "e" >>

NAME_R_LEE_PLAIN ==
    << "r", " ", "l", "e", "e" >>

AFFILIATION_CMU ==
    << "C", "M", "U" >>

TOKEN_A ==
    << "A" >>

TOKEN_OLD ==
    << "o", "l", "d" >>

TOKEN_NEW ==
    << "n", "e", "w" >>

TOKEN_PASS ==
    << "p", "a", "s", "s" >>

OPENALEX_W2_BARE ==
    << "W", "2" >>

OPENALEX_W3_LOWER ==
    << "w", "3" >>

TITLE_THESIS ==
    << "T", "h", "e", "s", "i", "s" >>

TITLE_LOST ==
    << "L", "o", "s", "t", " ", "w", "o", "r", "k" >>

YEAR_2021 ==
    << "2", "0", "2", "1" >>

SHORT_W1 ==
    << "W", "1" >>

SHORT_W2 ==
    << "W", "2" >>

SHORT_W3 ==
    << "W", "3" >>

CACHE_PATH_BROKEN ==
    << "0", "-", "b", "r", "o", "k", "e", "n" >>

\* Two records with the same id and different works; OpenAlex knows the
\* work of the first only.
Paper4 ==
    [EmptyRecord EXCEPT !.id = ID_A, !.title = TITLE_THESIS, !.year = YEAR_2021,
                        !.openalexId = OPENALEX_W2_BARE, !.paperUrl = WORK_ID_W2,
                        !.authors = << [ name |-> NAME_R_LEE_PLAIN,
                                         affiliation |-> AFFILIATION_CMU ] >>]

\* The DOI of the first work as a bundle may write it.
DOI_OF_WORK_W1 == << "1", "0", ".", "5", "5", "5", "5", "/", "x", "y", "z" >>

Paper5 ==
    [EmptyRecord EXCEPT !.id = ID_A, !.title = TITLE_LOST, !.openalexId = OPENALEX_W3_LOWER,
                        !.doi = DOI_OF_WORK_W1]

BundleWorks == Bundle(<< >>, << >>, "list", << Paper4, Paper5 >>)

Authorship(display_name, institutions) ==
    [ display_name |-> display_name, institutions |-> institutions ]

IndexItem(token, positions) == [ token |-> token, positions |-> positions ]

WORK_W1 ==
    [EmptyWork EXCEPT
        !.id = WORK_ID_W1, !.title = WORK_TITLE_W1, !.type = TYPE_ARTICLE,
        !.doi = WORK_DOI_W1, !.publication_year = 2022, !.cited_by_count = 7,
        !.abstract_inverted_index =
            << IndexItem(TOKEN_A, << 0 >>), IndexItem(TOKEN_OLD, << 1 >>),
               IndexItem(TOKEN_NEW, << 1 >>), IndexItem(TOKEN_PASS, << 2, 4 >>) >>,
        !.authorships =
            << Authorship(NAME_JANE_SMITH, << INSTITUTION_UNKNOWN, INSTITUTION_MIT >>),
               Authorship(NAME_JANE_SMITH_CAPITALS, << >>),
               Authorship(JSON_NULL, << >>) >>,
        !.primary_source = JSON_NULL, !.locations = << JSON_NULL, WORK_SOURCE_NAME >>,
        !.volume = VOLUME_3, !.issue = ISSUE_2,
        !.primary_landing_page_url = WORK_LANDING_URL, !.oa_url = WORK_PDF_URL]

\* A work with nulls where OpenAlex has no value.
WORK_W2 ==
    [EmptyWork EXCEPT
        !.id = WORK_ID_W2, !.title = JSON_NULL, !.type = TYPE_DISSERTATION_CAPITAL,
        !.doi = JSON_NULL,
        !.authorships = << Authorship(NAME_R_LEE, << >>) >>]

\* An older copy of the first work, as a cache file may hold it.
WORK_W1_CACHED ==
    [EmptyWork EXCEPT
        !.id = WORK_ID_W1, !.title = WORK_TITLE_CACHED, !.publication_year = 2018,
        !.cited_by_count = 2, !.issue = ISSUE_2]

\* The works the OpenAlex API returns, by short id.
OpenAlexServer ==
    [id \in { SHORT_W1, SHORT_W2 } |-> IF id = SHORT_W1 THEN WORK_W1 ELSE WORK_W2]

\* The payload of a successful request for a batch: a results list with
\* the works of the batch that OpenAlex knows.
ApiResponse(batch) ==
    LET known == SelectSeq(batch, LAMBDA id : id \in DOMAIN OpenAlexServer)
    IN  ResultsPayload([k \in 1..Len(known) |-> OpenAlexServer[known[k]]])

CacheFile(path, payload) == [ path |-> path, payload |-> payload ]

\* The states of the cache directory before the first run: empty, or a
\* file json.load cannot read and a file holding one work.
CachePool ==
    { << >>,
      << CacheFile(CACHE_PATH_BROKEN, UnreadablePayload),
         CacheFile(SHORT_W1, WorkPayload(WORK_W1_CACHED)) >> }

\* The --bundle lists of a run.
MainBundleLists ==
    { << BundleA, BundleB >>, << BundleQuery, BundleOther >>, << BundleQuery, BundleWorks >> }

MaxBatchSize == 2

MaxRuns == 2

MaxDays == 2

\* for attempt in range(1, 4)
FETCH_ATTEMPTS == 3

(***************************************************************************)
(* The landing-page fallback: English ratio, candidate scores and the      *)
(* choice of the best candidate.  A ratio or a score is a fraction         *)
(* [num, den] of integers with den > 0, which compares as the float of the *)
(* code does.                                                              *)
(***************************************************************************)

LABEL_LANG_EN ==
    << "l", "a", "n", "g", "=", "e", "n" >>

LABEL_COLON_EN ==
    << ":", "e", "n" >>

LABEL_BAR_EN ==
    << "|", "e", "n" >>

LABEL_ENGLISH ==
    << "e", "n", "g", "l", "i", "s", "h" >>

LABEL_CITATION ==
    << "c", "i", "t", "a", "t", "i", "o", "n", "_" >>

LABEL_DC ==
    << "d", "c", "." >>

LABEL_DCTERMS ==
    << "d", "c", "t", "e", "r", "m", "s", "." >>

LABEL_LDJSON ==
    << "l", "d", "j", "s", "o", "n" >>

LABEL_SCRIPT_TRANSLATED ==
    << "s", "c", "r", "i", "p", "t", ":", "t", "r", "a", "n", "s", "l", "a", "t", "e", "d" >>

LABEL_SCRIPT_ENGLISH ==
    << "s", "c", "r", "i", "p", "t", ":", "e", "n", "g", "l", "i", "s", "h" >>

LABEL_OG ==
    << "o", "g", ":" >>

LABEL_TWITTER ==
    << "t", "w", "i", "t", "t", "e", "r", ":" >>

LABEL_HTML_TITLE ==
    << "h", "t", "m", "l", ":", "t", "i", "t", "l", "e" >>

MARKER_RIGHTS ==
    << "a", "l", "l", " ", "r", "i", "g", "h", "t", "s", " ", "r", "e", "s", "e", "r", "v", "e",
       "d" >>

MARKER_COOKIE ==
    << "c", "o", "o", "k", "i", "e" >>

MARKER_JAVASCRIPT ==
    << "j", "a", "v", "a", "s", "c", "r", "i", "p", "t", " ", "i", "s", " ", "d", "i", "s", "a",
       "b", "l", "e", "d" >>

MARKER_SUBSCRIBE ==
    << "s", "u", "b", "s", "c", "r", "i", "b", "e" >>

MARKER_SIGN_IN ==
    << "s", "i", "g", "n", " ", "i", "n" >>

MARKER_LOG_IN ==
    << "l", "o", "g", " ", "i", "n" >>

MARKER_PRIVACY ==
    << "p", "r", "i", "v", "a", "c", "y", " ", "p", "o", "l", "i", "c", "y" >>

LOW_404 ==
    << "4", "0", "4" >>

LOW_404_NOT_FOUND ==
    << "4", "0", "4", " ", "n", "o", "t", " ", "f", "o", "u", "n", "d" >>

LOW_ERROR ==
    << "e", "r", "r", "o", "r" >>

LOW_FORBIDDEN ==
    << "f", "o", "r", "b", "i", "d", "d", "e", "n" >>

LOW_ACCESS_DENIED ==
    << "a", "c", "c", "e", "s", "s", " ", "d", "e", "n", "i", "e", "d" >>

LOW_NOT_FOUND ==
    << "n", "o", "t", " ", "f", "o", "u", "n", "d" >>

LOW_PAGE_NOT_FOUND ==
    << "p", "a", "g", "e", " ", "n", "o", "t", " ", "f", "o", "u", "n", "d" >>

LOW_HOME ==
    << "h", "o", "m", "e" >>

LOW_HOMEPAGE ==
    << "h", "o", "m", "e", "p", "a", "g", "e" >>

LOW_INDEX ==
    << "i", "n", "d", "e", "x" >>

LOW_LOGIN ==
    << "l", "o", "g", "i", "n" >>

LABEL_KEYS_METADATA ==
    { LABEL_CITATION, LABEL_DC, LABEL_DCTERMS, LABEL_LDJSON, LABEL_SCRIPT_TRANSLATED,
      LABEL_SCRIPT_ENGLISH }

LABEL_KEYS_SOCIAL == { LABEL_OG, LABEL_TWITTER, LABEL_HTML_TITLE }

NOISY_MARKERS ==
    { MARKER_RIGHTS, MARKER_COOKIE, MARKER_JAVASCRIPT, MARKER_SUBSCRIBE, MARKER_SIGN_IN,
      MARKER_LOG_IN, MARKER_PRIVACY }

LOW_QUALITY_TITLE_KEYS ==
    { LOW_404, LOW_404_NOT_FOUND, LOW_ERROR, LOW_FORBIDDEN, LOW_ACCESS_DENIED, LOW_NOT_FOUND,
      LOW_PAGE_NOT_FOUND, LOW_HOME, LOW_HOMEPAGE, LOW_INDEX, LOW_LOGIN, MARKER_SIGN_IN }

\* sub in text
Contains(text, sub) ==
    \E i \in 1..(Len(text) - Len(sub) + 1) : SubSeq(text, i, i + Len(sub) - 1) = sub

\* text.endswith(suffix)
EndsWith(text, suffix) ==
    /\ Len(text) >= Len(suffix)
    /\ SubSeq(text, Len(text) - Len(suffix) + 1, Len(text)) = suffix

Fraction(num, den) == [ num |-> num, den |-> den ]

\* a < b for two fractions.
FractionLess(a, b) ==
    a.num * b.den < b.num * a.den

\* The share of the letters of the text that are ASCII letters, 0.0 for a
\* text without letters.
RatioOfText(text) ==
    IF SelectSeq(text, IsAlpha) = << >> THEN Fraction(0, 1)
    ELSE Fraction(Len(SelectSeq(text, IsAsciiLetter)), Len(SelectSeq(text, IsAlpha)))

english_ratio(value) ==
    RatioOfText(strip_markup(value))

\* looks_non_english with the threshold in hundredths (0.35 by default).
LooksNonEnglishText(text, threshold) ==
    /\ SelectSeq(text, IsAlpha) # << >>
    /\ FractionLess(RatioOfText(strip_markup(text)), Fraction(threshold, 100))

looks_non_english(value, threshold) ==
    LooksNonEnglishText(strip_markup(value), threshold)

\* The bonus of a lowercased label, in hundredths.
LabelBonus(clean) ==
    (IF \/ Contains(clean, LABEL_LANG_EN)
        \/ EndsWith(clean, LABEL_COLON_EN)
        \/ EndsWith(clean, LABEL_BAR_EN)
     THEN 20 ELSE 0)
    + (IF Contains(clean, LABEL_ENGLISH) THEN 15 ELSE 0)
    + (IF \E key \in LABEL_KEYS_METADATA : Contains(clean, key) THEN 8 ELSE 0)
    + (IF \E key \in LABEL_KEYS_SOCIAL : Contains(clean, key) THEN 2 ELSE 0)

_candidate_label_bonus(label) ==
    LabelBonus(ToLower(collapse_ws(label)))

\* The penalty of a lowercased value, in hundredths.
ContentPenalty(low) ==
    IF \E marker \in NOISY_MARKERS : Contains(low, marker) THEN 40 ELSE 0

_candidate_content_penalty(value) ==
    ContentPenalty(ToLower(collapse_ws(value)))

\* ratio + length_bonus + label_bonus - noise_penalty over the common
\* denominator 400 * ratio.den; length / 400.0 is capped at 0.2 = 80 / 400.
ScoreOfClean(ratio, clean, label) ==
    IF clean = << >> THEN Fraction(0, 1)
    ELSE Fraction(400 * ratio.num
                    + ratio.den * ( Min({ Len(clean), 80 })
                                    + 4 * _candidate_label_bonus(label)
                                    - 4 * _candidate_content_penalty(clean) ),
                  400 * ratio.den)

_score_english_candidate(label, value) ==
    ScoreOfClean(english_ratio(value), strip_markup(value), label)

Candidate(label, value) == [ label |-> label, value |-> value ]

NoBest == [ best |-> << >>, best_score |-> Fraction(0, 1) ]

\* One iteration of the loop of _choose_best_english_title and
\* _choose_best_english_abstract over a candidate whose stripped value is
\* clean.
BetterOf(so_far, label, clean, eligible) ==
    IF eligible /\ FractionLess(so_far.best_score, _score_english_candidate(label, clean))
    THEN [ best |-> clean, best_score |-> _score_english_candidate(label, clean) ]
    ELSE so_far

TITLE_MIN_LEN == 8

TITLE_MAX_LEN == 320

ABSTRACT_MIN_LEN == 70

ABSTRACT_MAX_LEN == 6000

\* The hundredths of english_ratio below which the best candidate is
\* rejected.
MIN_ENGLISH_PERCENT == 60

EligibleTitle(clean) ==
    /\ Len(clean) >= TITLE_MIN_LEN
    /\ Len(clean) <= TITLE_MAX_LEN
    /\ soft_text_key(clean) \notin LOW_QUALITY_TITLE_KEYS

EligibleAbstract(clean) ==
    /\ Len(clean) >= ABSTRACT_MIN_LEN
    /\ Len(clean) <= ABSTRACT_MAX_LEN

RECURSIVE BestTitleFrom(_, _, _)
BestTitleFrom(candidates, k, so_far) ==
    IF k > Len(candidates) THEN so_far
    ELSE BestTitleFrom(candidates, k + 1,
                       BetterOf(so_far, candidates[k].label,
                                strip_markup(candidates[k].value),
                                EligibleTitle(strip_markup(candidates[k].value))))

RECURSIVE BestAbstractFrom(_, _, _)
BestAbstractFrom(candidates, k, so_far) ==
    IF k > Len(candidates) THEN so_far
    ELSE BestAbstractFrom(candidates, k + 1,
                          BetterOf(so_far, candidates[k].label,
                                   strip_markup(candidates[k].value),
                                   EligibleAbstract(strip_markup(candidates[k].value))))

\* The best candidate returned whatever its english_ratio.
RejectNonEnglish_Never(best) ==
    best

\* if english_ratio(best) < 0.6: return ""
RejectNonEnglish(best) ==
    IF FractionLess(english_ratio(best), Fraction(MIN_ENGLISH_PERCENT, 100))
    THEN << >>
    ELSE best

_choose_best_english_title(candidates) ==
    RejectNonEnglish(BestTitleFrom(candidates, 1, NoBest).best)

_choose_best_english_abstract(candidates) ==
    RejectNonEnglish(BestAbstractFrom(candidates, 1, NoBest).best)

\* len(candidate_key.split()) for a key, which has single spaces only.
WordCount(key) ==
    IF key = << >> THEN 0 ELSE 1 + Len(SelectSeq(key, IsWs))

_is_low_quality_fallback_title(value, publication, venue) ==
    LET candidate_key == soft_text_key(value)
    IN  \/ candidate_key = << >>
        \/ candidate_key \in LOW_QUALITY_TITLE_KEYS
        \/ candidate_key = soft_text_key(publication)
        \/ candidate_key = soft_text_key(venue)
        \/ WordCount(candidate_key) <= 2 /\ Len(candidate_key) <= 20

(***************************************************************************)
(* The texts of the landing pages, their works and the landing cache.      *)
(***************************************************************************)

TITLE_CJK ==
    << "U+4E2D", "U+6587", "U+4E2D", "U+6587", "U+4E2D", "U+6587", "U+4E2D", "U+6587",
       "U+4E2D", "a" >>

TITLE_CJK_SHORT ==
    << "U+4E2D", "U+6587", "U+4E2D", "U+6587" >>

TITLE_ENGLISH ==
    << "A", " ", "n", "e", "w", " ", "r", "e", "g", "i", "s", "t", "e", "r", " ", "a", "l",
       "l", "o", "c", "a", "t", "o", "r" >>

TITLE_MIXED ==
    << "U+4E2D", "U+6587", "U+4E2D", "U+6587", "U+4E2D", " ", "L", "L", "V", "M", "x" >>

TITLE_NOISY ==
    << "S", "u", "b", "s", "c", "r", "i", "b", "e", " ", "t", "o", " ", "L", "L", "V", "M",
       " ", "n", "e", "w", "s" >>

TITLE_NOT_FOUND ==
    << "P", "a", "g", "e", " ", "n", "o", "t", " ", "f", "o", "u", "n", "d" >>

TITLE_HOME ==
    << "H", "o", "m", "e" >>

TITLE_PROJECT ==
    << "L", "L", "V", "M", " ", "P", "r", "o", "j", "e", "c", "t" >>

TITLE_LOOPS ==
    << "L", "o", "o", "p", " ", "p", "a", "s", "s", "e", "s" >>

ABSTRACT_ALLOCATOR ==
    << "W", "e", " ", "p", "r", "e", "s", "e", "n", "t", " ", "a", " ", "n", "e", "w", " ",
       "r", "e", "g", "i", "s", "t", "e", "r", " ", "a", "l", "l", "o", "c", "a", "t", "o",
       "r", " ", "f", "o", "r", " ", "L", "L", "V", "M", " ", "t", "h", "a", "t", " ", "r",
       "e", "d", "u", "c", "e", "s", " ", "s", "p", "i", "l", "l", "s", " ", "a", "c", "r",
       "o", "s", "s", " ", "l", "o", "o", "p", "s", "." >>

ABSTRACT_CJK ==
    << "U+4E2D", "U+6587", "U+4E2D", "U+6587", "U+4E2D", "U+6587", "U+4E2D", "U+6587",
       "U+4E2D", "U+6587", "U+4E2D", "U+6587", "U+4E2D", "U+6587", "U+4E2D", "U+6587",
       "U+4E2D", "U+6587", "U+4E2D", "U+6587", "U+4E2D", "U+6587", "U+4E2D", "U+6587",
       "U+4E2D", "U+6587", "U+4E2D", "U+6587", "U+4E2D", "U+6587", "U+4E2D", "U+6587",
       "U+4E2D", "U+6587", "U+4E2D", "U+6587", "U+4E2D", "U+6587", "U+4E2D", "U+6587",
       "U+4E2D", "U+6587", "U+4E2D", "U+6587", "U+4E2D", "U+6587", "U+4E2D", "U+6587",
       "U+4E2D", "U+6587", "U+4E2D", "U+6587", "U+4E2D", "U+6587", "U+4E2D", "U+6587",
       "U+4E2D", "U+6587", "U+4E2D", "U+6587", "U+4E2D", "U+6587", "U+4E2D", "U+6587",
       "U+4E2D", "U+6587", "U+4E2D", "U+6587", "U+4E2D", "U+6587", "U+4E2D", "U+6587" >>

ABSTRACT_TOO_SHORT ==
    << "A", " ", "s", "h", "o", "r", "t", " ", "n", "o", "t", "e", " ", "a", "b", "o", "u",
       "t", " ", "r", "e", "g", "i", "s", "t", "e", "r", " ", "a", "l", "l", "o", "c", "a",
       "t", "i", "o", "n", "." >>

LABEL_OF_OG_TITLE ==
    << "o", "g", ":", "t", "i", "t", "l", "e" >>

LABEL_OF_HTML_TITLE ==
    << "h", "t", "m", "l", ":", "t", "i", "t", "l", "e" >>

LABEL_OF_CITATION_TITLE_EN ==
    << "c", "i", "t", "a", "t", "i", "o", "n", "_", "t", "i", "t", "l", "e", "|", "E", "N" >>

LABEL_OF_ENGLISH_META ==
    << "m", "e", "t", "a", ":", "D", "C", ".", "t", "i", "t", "l", "e", " ", "l", "a", "n",
       "g", "=", "e", "n", " ", "E", "n", "g", "l", "i", "s", "h" >>

LABEL_OF_CITATION_ABSTRACT ==
    << "c", "i", "t", "a", "t", "i", "o", "n", "_", "a", "b", "s", "t", "r", "a", "c", "t" >>

LABEL_OF_DESCRIPTION ==
    << "d", "e", "s", "c", "r", "i", "p", "t", "i", "o", "n" >>

URL_PAGE_CJK ==
    << "h", "t", "t", "p", ":", "/", "/", "h", "/", "z", "h" >>

URL_PAGE_ENGLISH ==
    << "h", "t", "t", "p", "s", ":", "/", "/", "d", "o", "i", ".", "o", "r", "g", "/", "1",
       "0", ".", "5", "5", "5", "5", "/", "w", "5" >>

URL_PAGE_MIXED ==
    << "H", "T", "T", "P", ":", "/", "/", "h", "/", "m", "i", "x", "e", "d" >>

URL_PAGE_PROJECT ==
    << "h", "t", "t", "p", ":", "/", "/", "h", "/", "p", "r", "o", "j", "e", "c", "t" >>

TITLE_VENUE ==
    << "C", "o", "m", "p", "i", "l", "e", "r", " ", "C", "o", "n", "s", "t", "r", "u", "c", "t",
       "i", "o", "n", " ", "C", "o", "n", "f", "e", "r", "e", "n", "c", "e" >>

URL_PAGE_VENUE ==
    << "h", "t", "t", "p", "s", ":", "/", "/", "h", "/", "v", "e", "n", "u", "e" >>

URL_FTP ==
    << "f", "t", "p", ":", "/", "/", "h", "/", "x" >>

UPDATED_DATE_1 ==
    << "2", "0", "2", "4", "-", "0", "1", "-", "0", "1", "T", "0", "8", ":", "0", "0", ":",
       "0", "0", ".", "0", "0", "0", "0", "0", "0" >>

UPDATED_DATE_2 ==
    << "2", "0", "2", "4", "-", "0", "1", "-", "0", "2", "T", "0", "8", ":", "0", "0", ":",
       "0", "0", ".", "0", "0", "0", "0", "0", "0" >>

STATUS_HIT ==
    << "h", "i", "t" >>

STATUS_MISS ==
    << "m", "i", "s", "s" >>

NOON_UTC ==
    << "T", "1", "2", ":", "0", "0", ":", "0", "0", "Z" >>

WORK_ID_W5 ==
    << "h", "t", "t", "p", "s", ":", "/", "/", "o", "p", "e", "n", "a", "l", "e", "x", ".",
       "o", "r", "g", "/", "W", "5" >>

WORK_ID_W6 ==
    << "h", "t", "t", "p", "s", ":", "/", "/", "o", "p", "e", "n", "a", "l", "e", "x", ".",
       "o", "r", "g", "/", "W", "6" >>

WORK_ID_W8 ==
    << "h", "t", "t", "p", "s", ":", "/", "/", "o", "p", "e", "n", "a", "l", "e", "x", ".",
       "o", "r", "g", "/", "W", "8" >>

SHORT_W5 ==
    << "W", "5" >>

SHORT_W6 ==
    << "W", "6" >>

SHORT_W8 ==
    << "W", "8" >>

\* The works of the landing-page model.  W5 has a title that is not
\* English, a landing page and a DOI page; W6 has an English title, no
\* abstract, a location that is no web page, a landing page and a DOI
\* page; W8 has no title, a null landing page, a landing page and a DOI
\* page.
WORK_W5(updated_date) ==
    [EmptyWork EXCEPT
        !.id = WORK_ID_W5, !.title = TITLE_CJK, !.updated_date = updated_date,
        !.primary_landing_page_url = URL_PAGE_CJK, !.doi = URL_PAGE_ENGLISH]

WORK_W6(updated_date) ==
    [EmptyWork EXCEPT
        !.id = WORK_ID_W6, !.title = TITLE_LOOPS, !.updated_date = updated_date,
        !.best_oa_landing_page_url = URL_FTP, !.primary_landing_page_url = URL_PAGE_MIXED,
        !.doi = URL_PAGE_ENGLISH]

WORK_W8(updated_date) ==
    [EmptyWork EXCEPT
        !.id = WORK_ID_W8, !.updated_date = updated_date,
        !.best_oa_landing_page_url = JSON_NULL,
        !.primary_landing_page_url = URL_PAGE_PROJECT, !.doi = URL_PAGE_VENUE]

\* The papers of a run with the landing fallback, as dedupe_records
\* returns them; the work of the fourth is a full English one, the id of
\* the fifth names no work and OpenAlex has no work for the sixth.
LandingPapers ==
    << [EmptyRecord EXCEPT !.openalexId = WORK_ID_W5, !.title = TITLE_CJK_SHORT,
                           !.abstract = ABSTRACT_ENTITY],
       [EmptyRecord EXCEPT !.openalexId = WORK_ID_W6,
                           !.abstract = PLACEHOLDER_OPENALEX],
       [EmptyRecord EXCEPT !.openalexId = WORK_ID_W8, !.publication = TITLE_PROJECT,
                           !.venue = TITLE_VENUE],
       LoadRecord(Paper1, SRC_OPENALEX_LLVM_QUERY, << >>),
       [EmptyRecord EXCEPT !.openalexId = OPENALEX_AUTHOR_ID, !.title = TITLE_CJK],
       [EmptyRecord EXCEPT !.openalexId = canonical_openalex_url(SHORT_W3),
                           !.title = TITLE_CJK] >>

\* What _extract_meta_candidates finds in the text of a page: the title
\* candidates and the abstract candidates, each a label and a value.
Page(titles, abstracts) == [ titles |-> titles, abstracts |-> abstracts ]

PAGE_CJK ==
    Page(<< Candidate(LABEL_OF_CITATION_TITLE_EN, TITLE_CJK) >>,
         << Candidate(LABEL_OF_CITATION_ABSTRACT, ABSTRACT_CJK) >>)

PAGE_ENGLISH ==
    Page(<< Candidate(LABEL_OF_HTML_TITLE, TITLE_HOME),
            Candidate(LABEL_OF_CITATION_TITLE_EN, TITLE_CJK),
            Candidate(LABEL_OF_OG_TITLE, TITLE_ENGLISH) >>,
         << Candidate(LABEL_OF_DESCRIPTION, ABSTRACT_TOO_SHORT),
            Candidate(LABEL_OF_CITATION_ABSTRACT, ABSTRACT_ALLOCATOR) >>)

PAGE_MIXED ==
    Page(<< Candidate(LABEL_OF_ENGLISH_META, TITLE_MIXED),
            Candidate(LABEL_OF_OG_TITLE, TITLE_NOISY) >>,
         << Candidate(LABEL_OF_DESCRIPTION, ABSTRACT_TOO_SHORT) >>)

PAGE_PROJECT ==
    Page(<< Candidate(LABEL_OF_HTML_TITLE, TITLE_NOT_FOUND),
            Candidate(LABEL_OF_OG_TITLE, TITLE_PROJECT) >>,
         << >>)

PAGE_VENUE ==
    Page(<< Candidate(LABEL_OF_OG_TITLE, TITLE_VENUE) >>,
         << Candidate(LABEL_OF_CITATION_ABSTRACT, ABSTRACT_ALLOCATOR) >>)

\* The web: the page behind each URL that answers.
Web ==
    [url \in { URL_PAGE_CJK, URL_PAGE_ENGLISH, URL_PAGE_MIXED, URL_PAGE_PROJECT,
               URL_PAGE_VENUE } |->
        IF url = URL_PAGE_CJK THEN PAGE_CJK
        ELSE IF url = URL_PAGE_ENGLISH THEN PAGE_ENGLISH
        ELSE IF url = URL_PAGE_MIXED THEN PAGE_MIXED
        ELSE IF url = URL_PAGE_PROJECT THEN PAGE_PROJECT
        ELSE PAGE_VENUE]

\* The candidates of the page behind a URL; a page the model does not
\* describe has none.
PageAt(url) ==
    IF url \in DOMAIN Web THEN Web[url] ELSE Page(<< >>, << >>)

RECURSIVE AppendNew(_, _, _)
\* out.append(url) for each non-empty url that is not in out yet.
AppendNew(out, urls, k) ==
    IF k > Len(urls) THEN out
    ELSE IF urls[k] = << >> \/ \E j \in 1..Len(out) : out[j] = urls[k]
    THEN AppendNew(out, urls, k + 1)
    ELSE AppendNew(Append(out, urls[k]), urls, k + 1)

\* The landing-page URLs of the best open-access location and the primary
\* location, then the DOI; the locations list of the model's works has no
\* landing page.
list_openalex_landing_urls(work) ==
    AppendNew(<< >>,
              << collapse_ws(PyStr(work.best_oa_landing_page_url)),
                 collapse_ws(PyStr(work.primary_landing_page_url)),
                 collapse_ws(PyStr(work.doi)) >>, 1)

\* re.match(r"^https?://", url, flags=re.IGNORECASE)
IsHttpUrl(url) ==
    StartsWith(ToLower(url), HTTP_SCHEME) \/ StartsWith(ToLower(url), HTTPS_SCHEME)

NotFound == [ title |-> << >>, abstract |-> << >>, fetched |-> << >>, failed |-> << >> ]

\* What the loop of enrich_from_landing_page returns for one page that was
\* fetched, or NotFound with the URL noted when the page gives nothing.
FoundOn(url, best_title, best_abstract, earlier) ==
    [ title |-> best_title, abstract |-> best_abstract,
      fetched |-> Append(earlier.fetched, url), failed |-> earlier.failed ]

RECURSIVE EnrichFrom(_, _, _, _)
\* The loop of enrich_from_landing_page from URL k on; up: the URLs whose
\* fetch succeeds.  fetched and failed are the URLs _fetch_text returned a
\* text for and raised for.
EnrichFrom(urls, k, up, earlier) ==
    IF k > Len(urls) THEN [earlier EXCEPT !.title = << >>, !.abstract = << >>]
    ELSE IF ~IsHttpUrl(urls[k]) THEN EnrichFrom(urls, k + 1, up, earlier)
    ELSE IF urls[k] \notin up
    THEN EnrichFrom(urls, k + 1, up, [earlier EXCEPT !.failed = Append(@, urls[k])])
    ELSE IF \/ _choose_best_english_title(PageAt(urls[k]).titles) # << >>
            \/ _choose_best_english_abstract(PageAt(urls[k]).abstracts) # << >>
    THEN FoundOn(urls[k], _choose_best_english_title(PageAt(urls[k]).titles),
                 _choose_best_english_abstract(PageAt(urls[k]).abstracts), earlier)
    ELSE EnrichFrom(urls, k + 1, up, [earlier EXCEPT !.fetched = Append(@, urls[k])])

enrich_from_landing_page(work, up) ==
    EnrichFrom(list_openalex_landing_urls(work), 1, up, NotFound)

should_try_landing_fallback(record) ==
    \/ looks_non_english(record.title, 35)
    \/ collapse_ws(record.title) = << >>
    \/ is_placeholder_abstract(record.abstract)
    \/ looks_non_english(record.abstract, 45)

\* datetime.now(timezone.utc) ... isoformat() with Z for the offset, on a
\* day of January 2024: every run of the model is at noon.
NowText(day) ==
    IsoDate(day) \o NOON_UTC

\* The day of the datetime _parse_iso_datetime reads from a text, None when
\* it reads none.
ParsedDay(value) ==
    LET raw == collapse_ws(value)
    IN  IF /\ Len(raw) = Len(NowText(1))
           /\ SubSeq(raw, 1, Len(YEAR_MONTH)) = YEAR_MONTH
           /\ IsDigit(raw[9]) /\ IsDigit(raw[10])
           /\ Drop(raw, 11) = NOON_UTC
        THEN 10 * (CHOOSE n \in 0..9 : DIGIT_CHARS[n + 1] = raw[9])
             + (CHOOSE n \in 0..9 : DIGIT_CHARS[n + 1] = raw[10])
        ELSE None

\* _cache_older_than with the age compared to no days at all.
_cache_older_than_IgnoresDays(value, days, day) ==
    IF days < 0 THEN FALSE
    ELSE IF ParsedDay(value) = None THEN TRUE
    ELSE day - ParsedDay(value) >= 0

\* _cache_older_than on the given day.
_cache_older_than(value, days, day) ==
    IF days < 0 THEN FALSE
    ELSE IF ParsedDay(value) = None THEN TRUE
    ELSE day - ParsedDay(value) >= days

\* landing_cache.get(short_id, {}) with the defaults of its get calls.
NoEntry ==
    [ title |-> << >>, abstract |-> << >>, status |-> << >>, sourceUpdatedAt |-> << >>,
      updatedAt |-> << >> ]

EntryOf(landing_cache, short_id) ==
    IF short_id \in DOMAIN landing_cache THEN landing_cache[short_id] ELSE NoEntry

\* should_probe for a cache entry and the updated_date of the work.
ShouldProbe(entry, work_updated, miss_recheck_days, day) ==
    LET cache_status == collapse_ws(ToLower(entry.status))
        source_changed == /\ work_updated # << >>
                          /\ collapse_ws(entry.sourceUpdatedAt) # << >>
                          /\ work_updated # collapse_ws(entry.sourceUpdatedAt)
    IN  IF cache_status = STATUS_HIT THEN source_changed
        ELSE IF cache_status = STATUS_MISS
        THEN source_changed
             \/ _cache_older_than(collapse_ws(entry.updatedAt), miss_recheck_days, day)
        ELSE collapse_ws(entry.title) = << >> /\ collapse_ws(entry.abstract) = << >>

\* An entry with the status of a hit whatever the probe found.
ProbedEntry_AlwaysHit(found, work_updated, day) ==
    [ title |-> found.title, abstract |-> found.abstract, status |-> STATUS_HIT,
      sourceUpdatedAt |-> work_updated, updatedAt |-> NowText(day) ]

\* The entry a probe stores.
ProbedEntry(found, work_updated, day) ==
    [ title |-> found.title, abstract |-> found.abstract,
      status |-> IF found.title # << >> \/ found.abstract # << >>
                 THEN STATUS_HIT ELSE STATUS_MISS,
      sourceUpdatedAt |-> work_updated, updatedAt |-> NowText(day) ]

\* A low-quality title taken out of the entry, the status left as it was.
CheckedEntry_KeepsStatus(entry, low_quality) ==
    IF entry.title # << >> /\ low_quality
    THEN [entry EXCEPT !.title = << >>]
    ELSE entry

\* The entry after the test of the fallback title: a low-quality title is
\* taken out of it.
CheckedEntry(entry, low_quality) ==
    IF entry.title # << >> /\ low_quality
    THEN [entry EXCEPT !.title = << >>,
                       !.status = IF entry.abstract = << >> THEN STATUS_MISS ELSE STATUS_HIT]
    ELSE entry

\* The fallback title and abstract written whatever the paper has.
WithFallback_Always(paper, fallback_title, fallback_abstract) ==
    [paper EXCEPT
        !.title = IF fallback_title # << >> THEN fallback_title ELSE @,
        !.abstract = IF fallback_abstract # << >> THEN fallback_abstract ELSE @]

\* The paper after the fallback title and abstract of the entry were
\* offered to it.
WithFallback(paper, fallback_title, fallback_abstract) ==
    [paper EXCEPT
        !.title = IF /\ fallback_title # << >>
                     /\ \/ collapse_ws(paper.title) = << >>
                        \/ looks_non_english(collapse_ws(paper.title), 35)
                  THEN fallback_title ELSE @,
        !.abstract = IF /\ fallback_abstract # << >>
                        /\ \/ is_placeholder_abstract(collapse_ws(paper.abstract))
                           \/ looks_non_english(collapse_ws(paper.abstract), 45)
                     THEN fallback_abstract ELSE @]

\* The end of an iteration: entry is what the cache holds for the paper
\* now (the stored one or the one just probed), stored tells whether the
\* cache holds it.
ApplyEntry(paper, short_id, landing_cache, entry, stored, outcome) ==
    LET fallback_title == collapse_ws(entry.title)
        low_quality == _is_low_quality_fallback_title(fallback_title, paper.publication,
                                                      paper.venue)
        checked == CheckedEntry([entry EXCEPT !.title = fallback_title,
                                              !.abstract = collapse_ws(entry.abstract)],
                                low_quality)
    IN  [outcome EXCEPT
            !.applied = TRUE,
            !.paper = WithFallback(paper, checked.title, collapse_ws(entry.abstract)),
            !.landing_cache =
                IF stored /\ fallback_title # << >> /\ low_quality
                THEN [id \in DOMAIN landing_cache \cup { short_id } |->
                         IF id = short_id
                         THEN [entry EXCEPT !.title = << >>, !.status = checked.status]
                         ELSE landing_cache[id]]
                ELSE IF stored
                THEN [id \in DOMAIN landing_cache \cup { short_id } |->
                         IF id = short_id THEN entry ELSE landing_cache[id]]
                ELSE landing_cache]

\* What one iteration of the loop leaves: the paper, the cache, the two
\* counters, whether the paper was probed, what the probe found and
\* whether the iteration came to the lines that apply a fallback.
Outcome(paper, landing_cache, landing_probes, landing_skipped_budget) ==
    [ paper |-> paper, landing_cache |-> landing_cache, landing_probes |-> landing_probes,
      landing_skipped_budget |-> landing_skipped_budget, probed |-> FALSE,
      found |-> NotFound, applied |-> FALSE ]

\* The iteration from the probe on, for a paper that is probed.
ProbePaper(paper, work, short_id, landing_cache, found, day, outcome) ==
    ApplyEntry(paper, short_id, landing_cache,
               ProbedEntry(found, collapse_ws(PyStr(work.updated_date)), day), TRUE,
               [outcome EXCEPT !.probed = TRUE, !.found = found,
                               !.landing_probes = @ + 1])

\* The iteration with a budget test that lets one more probe through.
FallbackPaper_OneMoreProbe(work, short_id, so_far, landing_max_probes, landing_miss_recheck_days, day, up) ==
    IF ~should_try_landing_fallback(so_far.paper)
    THEN so_far
    ELSE IF ShouldProbe(EntryOf(so_far.landing_cache, short_id),
                        collapse_ws(PyStr(work.updated_date)),
                        landing_miss_recheck_days, day)
    THEN IF landing_max_probes > 0 /\ so_far.landing_probes > landing_max_probes
         THEN [so_far EXCEPT !.landing_skipped_budget = @ + 1]
         ELSE ProbePaper(so_far.paper, work, short_id, so_far.landing_cache,
                         enrich_from_landing_page(work, up), day, so_far)
    ELSE ApplyEntry(so_far.paper, short_id, so_far.landing_cache,
                    EntryOf(so_far.landing_cache, short_id),
                    short_id \in DOMAIN so_far.landing_cache, so_far)

\* One iteration of the loop of apply_openalex_refresh with the landing
\* fallback enabled, for a refreshed paper, from the test of
\* should_try_landing_fallback on; so_far holds the paper, the cache and
\* the counters as the iteration found them.
FallbackPaper(work, short_id, so_far, landing_max_probes, landing_miss_recheck_days, day, up) ==
    IF ~should_try_landing_fallback(so_far.paper)
    THEN so_far
    ELSE IF ShouldProbe(EntryOf(so_far.landing_cache, short_id),
                        collapse_ws(PyStr(work.updated_date)),
                        landing_miss_recheck_days, day)
    THEN IF landing_max_probes > 0 /\ so_far.landing_probes >= landing_max_probes
         THEN [so_far EXCEPT !.landing_skipped_budget = @ + 1]
         ELSE ProbePaper(so_far.paper, work, short_id, so_far.landing_cache,
                         enrich_from_landing_page(work, up), day, so_far)
    ELSE ApplyEntry(so_far.paper, short_id, so_far.landing_cache,
                    EntryOf(so_far.landing_cache, short_id),
                    short_id \in DOMAIN so_far.landing_cache, so_far)

\* The most days between the last change of a miss entry and its next probe
\* that --landing-miss-recheck-days asks for in the model.
MaxRecheckDays == 1

\* The most probes --landing-max-probes allows in the model; 0 is no limit.
MaxProbeBudget == 1

\* The most runs with the landing fallback.
MaxLandingRuns == 2

\* The last day of the clock of those runs.
MaxLandingDays == 2

(***************************************************************************)
(* The inputs of the merge loop of dedupe_records: a base record and the   *)
(* other members of its group, as load_source_records returns them.        *)
(***************************************************************************)

ABSTRACT_PLACEHOLDER_OPENALEX ==
    << "N", "o", " ", "a", "b", "s", "t", "r", "a", "c", "t", " ", "a", "v", "a", "i", "l", "a",
       "b", "l", "e", " ", "i", "n", " ", "O", "p", "e", "n", "A", "l", "e", "x", " ", "m", "e",
       "t", "a", "d", "a", "t", "a", "." >>

ABSTRACT_REGISTER_ALLOCATION ==
    << "A", " ", "s", "t", "u", "d", "y", " ", "o", "f", " ", "r", "e", "g", "i", "s", "t", "e",
       "r", " ", "a", "l", "l", "o", "c", "a", "t", "i", "o", "n", "." >>

ABSTRACT_PLACEHOLDER_DISCOVERY ==
    << "N", "o", " ", "a", "b", "s", "t", "r", "a", "c", "t", " ", "a", "v", "a", "i", "l", "a",
       "b", "l", "e", " ", "i", "n", " ", "d", "i", "s", "c", "o", "v", "e", "r", "y", " ", "m",
       "e", "t", "a", "d", "a", "t", "a", "." >>

ABSTRACT_BLANK ==
    << " ", " " >>

TITLE_REGISTER_ALLOCATION ==
    << "R", "e", "g", "i", "s", "t", "e", "r", " ", "a", "l", "l", "o", "c", "a", "t", "i", "o",
       "n" >>

NAME_INITIAL_J ==
    << "J", "." >>

NAME_INITIAL_K ==
    << "K" >>

NAME_SMITH ==
    << "S", "m", "i", "t", "h" >>

TAG_IR_LOWER ==
    << "i", "r" >>

TAG_CLANG ==
    << "C", "l", "a", "n", "g" >>

KEYWORD_SSA ==
    << "S", "S", "A" >>

KEYWORD_SSA_LOWER ==
    << "s", "s", "a" >>

KEYWORD_PASSES ==
    << "p", "a", "s", "s", "e", "s" >>

\* Five records of one group (they share a DOI) that differ in abstract,
\* authors, list fields and citation count.
MergePaper1 ==
    [EmptyRecord EXCEPT !.doi = DOI_PLAIN, !.abstract = ABSTRACT_PLACEHOLDER_OPENALEX,
                        !.authors = << [ name |-> NAME_J_SMITH, affiliation |-> << >> ] >>,
                        !.tags = << TAG_LLVM >>, !.keywords = << KEYWORD_SSA >>,
                        !.citationCount = 3]

MergePaper2 ==
    [EmptyRecord EXCEPT !.doi = DOI_PLAIN, !.title = TITLE_REGISTER_ALLOCATION,
                        !.abstract = ABSTRACT_REGISTER_ALLOCATION,
                        !.authors = << [ name |-> NAME_JANE_SMITH, affiliation |-> << >> ],
                                       [ name |-> NAME_ROBERT_LEE, affiliation |-> << >> ] >>,
                        !.tags = << TAG_LLVM_LOWER, TAG_IR >>, !.citationCount = 9]

MergePaper3 ==
    [EmptyRecord EXCEPT !.doi = DOI_PLAIN, !.abstract = ABSTRACT_PLACEHOLDER_DISCOVERY,
                        !.authors = << [ name |-> NAME_JANE_SMITH_CAPITALS,
                                         affiliation |-> << >> ],
                                       [ name |-> NAME_R_LEE, affiliation |-> << >> ] >>,
                        !.tags = << TAG_IR_LOWER, TAG_CLANG >>,
                        !.keywords = << KEYWORD_SSA_LOWER, KEYWORD_PASSES >>,
                        !.citationCount = 5]

MergePaper4 ==
    [EmptyRecord EXCEPT !.doi = DOI_PLAIN, !.abstract = ABSTRACT_BLANK,
                        !.authors = << [ name |-> NAME_INITIAL_J, affiliation |-> << >> ],
                                       [ name |-> NAME_INITIAL_K, affiliation |-> << >> ] >>,
                        !.matchedAuthors = << NAME_JANE_SMITH >>]

MergePaper5 ==
    [EmptyRecord EXCEPT !.doi = DOI_PLAIN, !.title = ABSTRACT_BLANK,
                        !.authors = << [ name |-> NAME_INITIAL_J, affiliation |-> << >> ],
                                       [ name |-> NAME_SMITH, affiliation |-> << >> ] >>,
                        !.matchedAuthors = << NAME_JANE_SMITH_CAPITALS, NAME_R_LEE >>,
                        !.citationCount = 1]

BundleMerge ==
    Bundle(SRC_OPENALEX_DISCOVERY, << >>, "list",
           << MergePaper1, MergePaper2, MergePaper3, MergePaper4, MergePaper5 >>)

\* The records load_source_records gives for the bundles of the model.
MergeRecordPool ==
    UNION { Range(LoadBundleRecords(payload)) :
              payload \in { BundleA, BundleB, BundleBlog, BundleQuery, BundleOther,
                            BundleWorks, BundleMerge } }

\* The most members a group has beside its best one.
MaxMembers == 2

(***************************************************************************)
(* The state of the six state machines of this module.                    *)
(***************************************************************************)

VARIABLES
    bundle_paths,   \* the bundle files to load, in order
    path_idx,       \* how many of them load_source_records has read
    records,        \* the source records loaded so far
    dsu,            \* the DSU of dedupe_records: parent and rank
    owner,          \* identity key -> index of the first record that has it
    idx,            \* the next record index of the running loop
    groups,         \* root -> member indices, in insertion order
    merged,         \* the canonical records built so far
    best_members,   \* best of each iteration of the merge loop so far
    dedupe_pc       \* load, dedupe, union, group, merge, done

dedupeVars ==
    << bundle_paths, path_idx, records, dsu, owner, idx, groups, merged, best_members,
       dedupe_pc >>

VARIABLES
    ids_input,      \* the papers handed to ensure_unique_ids
    ids_papers,     \* the same list as the loop rewrites its ids
    ids_seen,       \* the ids assigned so far
    ids_idx         \* the next paper of the loop

idsVars ==
    << ids_input, ids_papers, ids_seen, ids_idx >>

VARIABLES
    today,              \* the date of the clock, a day of the month
    cache_files,        \* the files of the OpenAlex cache directory, in path order
    output_file,        \* the output bundle on disk
    manifest_file,      \* the manifest on disk
    main_pc,            \* where main is: idle, load, dedupe, scan, fetch, refresh,
                        \* assemble, save, manifest, done, aborted
    args,               \* the parsed command line of the run
    source_records,     \* what load_source_records returned
    deduped,            \* the deduped records, rewritten in place by the later steps
    works_by_id,        \* short id -> work
    pending_batches,    \* the batches fetch_openalex_works has still to request
    fetched,            \* out of fetch_openalex_works: short id -> work
    cache_files_written,
    output_changed,
    manifest_changed,
    runs,               \* how many runs have started
    fetch_error,        \* the id named by the RuntimeError of the fetch, if raised
    run_start,          \* the files as the run found them
    prev_run,           \* the run before: its command line, its cache, its output
    save_calls          \* the calls of save_json of the run, in order

mainVars ==
    << today, cache_files, output_file, manifest_file, main_pc, args, source_records,
       deduped, works_by_id, pending_batches, fetched, cache_files_written,
       output_changed, manifest_changed, runs, fetch_error, run_start, prev_run,
       save_calls >>

VARIABLES
    fold_best,      \* records[best], the record the merge loop of a group starts from
    fold_members,   \* the other members of the group, in order
    fold_idx,       \* the next member of the loop
    fold_result,    \* result, the record merged so far
    fold_call       \* the last call of merge_records: base, incoming and what it returned

foldVars ==
    << fold_best, fold_members, fold_idx, fold_result, fold_call >>

VARIABLES
    landing_day,            \* the date of the clock of the runs with the landing fallback
    landing_works,          \* works_by_id of those runs
    landing_cache_file,     \* the payload of the landing cache file
    landing_args,           \* the command line of the run
    landing_pc,             \* idle or refresh
    landing_papers,         \* papers of apply_openalex_refresh, rewritten in place
    landing_cache,          \* landing_cache of apply_openalex_refresh
    landing_idx,            \* the next paper of the loop
    landing_probes,
    landing_skipped_budget,
    landing_probed_on,      \* short id -> the day of its last probe
    landing_step,           \* the last iteration of the loop of the run
    landing_runs            \* how many runs have started

landingVars ==
    << landing_day, landing_works, landing_cache_file, landing_args, landing_pc,
       landing_papers, landing_cache, landing_idx, landing_probes, landing_skipped_budget,
       landing_probed_on, landing_step, landing_runs >>

VARIABLES
    fetch_ids,          \* ids of fetch_openalex_works
    fetch_batch_size,   \* batch_size
    fetch_pending,      \* pending_batches
    fetch_batches,      \* the batches whose request gave a payload, in order
    fetch_pc,           \* entry, loop, returned or raised
    fetch_step          \* the last iteration of the while loop

fetchVars ==
    << fetch_ids, fetch_batch_size, fetch_pending, fetch_batches, fetch_pc, fetch_step >>

vars == << dedupeVars, idsVars, mainVars, foldVars, landingVars, fetchVars >>

(***************************************************************************)
(* load_source_records followed by dedupe_records, one loop iteration per  *)
(* step.                                                                   *)
(***************************************************************************)

NoArgs == [ bundles |-> << >>, skip_network |-> FALSE, batch_size |-> 1 ]

NoRun ==
    [ finished |-> FALSE, args |-> NoArgs, cache_files |-> << >>, output_file |-> NoFile ]

NoWorks == [id \in {} |-> EmptyWork]

SaveCall(path, before, text, result) ==
    [ path |-> path, before |-> before, text |-> text, returned |-> result.returned,
      wrote |-> result.wrote, after |-> result.file ]

MainIdle ==
    /\ today = 1
    /\ cache_files = << >>
    /\ output_file = NoFile
    /\ manifest_file = NoFile
    /\ main_pc = "off"
    /\ args = NoArgs
    /\ source_records = << >>
    /\ deduped = << >>
    /\ works_by_id = NoWorks
    /\ pending_batches = << >>
    /\ fetched = NoWorks
    /\ cache_files_written = 0
    /\ output_changed = FALSE
    /\ manifest_changed = FALSE
    /\ runs = 0
    /\ fetch_error = << >>
    /\ run_start = [ manifest_file |-> NoFile, output_file |-> NoFile, cache_files |-> << >> ]
    /\ prev_run = NoRun
    /\ save_calls = << >>

\* The three machines share no variable; a specification of one of them
\* leaves the other two where these predicates put them.
NoCall == << >>

NoStep == << >>

NoLandingArgs ==
    [ skip_landing_fallback |-> TRUE, landing_max_probes |-> 0,
      landing_miss_recheck_days |-> 0 ]

FetchIdle ==
    /\ fetch_ids = << >>
    /\ fetch_batch_size = 1
    /\ fetch_pending = << >>
    /\ fetch_batches = << >>
    /\ fetch_pc = "off"
    /\ fetch_step = NoStep

LandingIdle ==
    /\ landing_day = 1
    /\ landing_works = NoWorks
    /\ landing_cache_file = << >>
    /\ landing_args = NoLandingArgs
    /\ landing_pc = "off"
    /\ landing_papers = << >>
    /\ landing_cache = << >>
    /\ landing_idx = 1
    /\ landing_probes = 0
    /\ landing_skipped_budget = 0
    /\ landing_probed_on = << >>
    /\ landing_step = NoStep
    /\ landing_runs = 0

FoldIdle ==
    /\ fold_best = EmptyRecord
    /\ fold_members = << >>
    /\ fold_idx = 1
    /\ fold_result = EmptyRecord
    /\ fold_call = NoCall

DedupeIdle ==
    /\ bundle_paths = << >>
    /\ path_idx = 0
    /\ records = << >>
    /\ dsu = DSU_init(0)
    /\ owner = << >>
    /\ idx = 0
    /\ groups = << >>
    /\ merged = << >>
    /\ best_members = << >>
    /\ dedupe_pc = "off"

IdsIdle ==
    /\ ids_input = << >>
    /\ ids_papers = << >>
    /\ ids_seen = {}
    /\ ids_idx = 1

DedupeInit ==
    /\ bundle_paths \in UNION { [1..n -> BundlePool] : n \in 1..MaxBundles }
    /\ path_idx = 0
    /\ records = << >>
    /\ dsu = DSU_init(0)
    /\ owner = << >>
    /\ idx = 0
    /\ groups = << >>
    /\ merged = << >>
    /\ best_members = << >>
    /\ dedupe_pc = "load"
    /\ IdsIdle
    /\ MainIdle
    /\ FoldIdle
    /\ LandingIdle
    /\ FetchIdle

\* One iteration of the path loop of load_source_records; after the last
\* path the function returns its records.
LoadBundle ==
    /\ dedupe_pc = "load"
    /\ path_idx < Len(bundle_paths)
    /\ records' = records \o LoadBundleRecords(bundle_paths[path_idx + 1])
    /\ path_idx' = path_idx + 1
    /\ dedupe_pc' = IF path_idx + 1 = Len(bundle_paths) THEN "dedupe" ELSE "load"
    /\ UNCHANGED << bundle_paths, dsu, owner, idx, groups, merged, best_members >>
    /\ UNCHANGED << idsVars, mainVars, foldVars, landingVars, fetchVars >>

\* The entry of dedupe_records: no records, no work.
StartDedupe ==
    /\ dedupe_pc = "dedupe"
    /\ dsu' = DSU_init(Len(records))
    /\ owner' = << >>
    /\ idx' = 1
    /\ dedupe_pc' = IF records = << >> THEN "done" ELSE "union"
    /\ UNCHANGED << bundle_paths, path_idx, records, groups, merged, best_members >>
    /\ UNCHANGED << idsVars, mainVars, foldVars, landingVars, fetchVars >>

\* One iteration of the union loop: every key of record idx.
UnionRecord ==
    /\ dedupe_pc = "union"
    /\ LET st == UnionKeys([ dsu |-> dsu, owner |-> owner ], idx,
                           record_identity_keys(records[idx]), 1)
       IN  /\ dsu' = st.dsu
           /\ owner' = st.owner
    /\ idx' = IF idx = Len(records) THEN 1 ELSE idx + 1
    /\ dedupe_pc' = IF idx = Len(records) THEN "group" ELSE "union"
    /\ UNCHANGED << bundle_paths, path_idx, records, groups, merged, best_members >>
    /\ UNCHANGED << idsVars, mainVars, foldVars, landingVars, fetchVars >>

\* One iteration of the grouping loop: find compresses paths as it goes.
GroupRecord ==
    /\ dedupe_pc = "group"
    /\ LET found == DSU_find(dsu.parent, idx)
       IN  /\ dsu' = [dsu EXCEPT !.parent = found.parent]
           /\ groups' = AddToGroup(groups, found.root, idx)
    /\ idx' = IF idx = Len(records) THEN 1 ELSE idx + 1
    /\ dedupe_pc' = IF idx = Len(records) THEN "merge" ELSE "group"
    /\ UNCHANGED << bundle_paths, path_idx, records, owner, merged, best_members >>
    /\ UNCHANGED << idsVars, mainVars, foldVars, landingVars, fetchVars >>

\* One iteration of the merge loop: the canonical record of group idx.
MergeNextGroup ==
    /\ dedupe_pc = "merge"
    /\ merged' = Append(merged, MergeGroup(records, groups[idx].members))
    /\ best_members' = Append(best_members, BestMember(records, groups[idx].members))
    /\ idx' = idx + 1
    /\ dedupe_pc' = IF idx = Len(groups) THEN "done" ELSE "merge"
    /\ UNCHANGED << bundle_paths, path_idx, records, dsu, owner, groups >>
    /\ UNCHANGED << idsVars, mainVars, foldVars, landingVars, fetchVars >>

DedupeNext ==
    \/ LoadBundle
    \/ StartDedupe
    \/ UnionRecord
    \/ GroupRecord
    \/ MergeNextGroup

SpecDedupe == DedupeInit /\ [][DedupeNext]_vars

(***************************************************************************)
(* ensure_unique_ids as a state machine: one step per paper of its loop.   *)
(***************************************************************************)

IdsInit ==
    /\ ids_input \in UNION { [1..n -> IdRecordPool] : n \in 1..MaxIdRecords }
    /\ ids_papers = ids_input
    /\ ids_seen = {}
    /\ ids_idx = 1
    /\ DedupeIdle
    /\ MainIdle
    /\ FoldIdle
    /\ LandingIdle
    /\ FetchIdle

\* One iteration of the loop of ensure_unique_ids.
AssignNextId ==
    /\ ids_idx <= Len(ids_papers)
    /\ LET candidate == AssignId(ids_papers[ids_idx], ids_seen)
       IN  /\ ids_papers' = [ids_papers EXCEPT ![ids_idx].id = candidate]
           /\ ids_seen' = ids_seen \cup { candidate }
    /\ ids_idx' = ids_idx + 1
    /\ UNCHANGED ids_input
    /\ UNCHANGED << dedupeVars, mainVars, foldVars, landingVars, fetchVars >>

IdsNext ==
    AssignNextId

SpecIds == IdsInit /\ [][IdsNext]_vars

(***************************************************************************)
(* main as a state machine: one action per call of main and per iteration  *)
(* of the fetch loop, run after run on the same files.  Every run passes   *)
(* --skip-landing-fallback.  Between two runs a day may pass and           *)
(* build-papers-catalog.py may write the manifest.                         *)
(***************************************************************************)

MainInit ==
    /\ today = 1
    /\ cache_files \in CachePool
    /\ output_file = NoFile
    /\ manifest_file = NoFile
    /\ main_pc = "idle"
    /\ args = NoArgs
    /\ source_records = << >>
    /\ deduped = << >>
    /\ works_by_id = NoWorks
    /\ pending_batches = << >>
    /\ fetched = NoWorks
    /\ cache_files_written = 0
    /\ output_changed = FALSE
    /\ manifest_changed = FALSE
    /\ runs = 0
    /\ fetch_error = << >>
    /\ run_start = [ manifest_file |-> NoFile, output_file |-> NoFile, cache_files |-> << >> ]
    /\ prev_run = NoRun
    /\ save_calls = << >>
    /\ DedupeIdle
    /\ IdsIdle
    /\ FoldIdle
    /\ LandingIdle
    /\ FetchIdle

BetweenRuns ==
    main_pc \in { "idle", "done", "aborted" }

\* A new process: the command line is parsed and the paths are resolved.
StartRun ==
    /\ BetweenRuns
    /\ runs < MaxRuns
    /\ \E bundles \in MainBundleLists, skip_network \in BOOLEAN, batch_size \in 1..MaxBatchSize :
        args' = [ bundles |-> bundles, skip_network |-> skip_network,
                  batch_size |-> batch_size ]
    /\ runs' = runs + 1
    /\ prev_run' = [ finished |-> main_pc = "done", args |-> args,
                     cache_files |-> run_start.cache_files, output_file |-> output_file ]
    /\ run_start' = [ manifest_file |-> manifest_file, output_file |-> output_file,
                      cache_files |-> cache_files ]
    /\ source_records' = << >>
    /\ deduped' = << >>
    /\ works_by_id' = NoWorks
    /\ pending_batches' = << >>
    /\ fetched' = NoWorks
    /\ cache_files_written' = 0
    /\ output_changed' = FALSE
    /\ manifest_changed' = FALSE
    /\ fetch_error' = << >>
    /\ save_calls' = << >>
    /\ main_pc' = "load"
    /\ UNCHANGED << today, cache_files, output_file, manifest_file >>
    /\ UNCHANGED << dedupeVars, idsVars, foldVars, landingVars, fetchVars >>

\* source_records = load_source_records(bundle_paths)
MainLoad ==
    /\ main_pc = "load"
    /\ source_records' = load_source_records(args.bundles)
    /\ main_pc' = "dedupe"
    /\ UNCHANGED << today, cache_files, output_file, manifest_file, args, deduped,
                    works_by_id, pending_batches, fetched, cache_files_written,
                    output_changed, manifest_changed, runs, fetch_error, run_start,
                    prev_run, save_calls >>
    /\ UNCHANGED << dedupeVars, idsVars, foldVars, landingVars, fetchVars >>

\* deduped = dedupe_records(source_records)
MainDedupe ==
    /\ main_pc = "dedupe"
    /\ deduped' = dedupe_records(source_records)
    /\ main_pc' = "scan"
    /\ UNCHANGED << today, cache_files, output_file, manifest_file, args, source_records,
                    works_by_id, pending_batches, fetched, cache_files_written,
                    output_changed, manifest_changed, runs, fetch_error, run_start,
                    prev_run, save_calls >>
    /\ UNCHANGED << dedupeVars, idsVars, foldVars, landingVars, fetchVars >>

\* The cache scan, the missing ids and the entry of fetch_openalex_works,
\* which is called when ids are missing and the network is allowed.
MainScanCache ==
    /\ main_pc = "scan"
    /\ LET openalex_ids == OpenAlexIds(deduped)
           wanted_ids == Range(openalex_ids)
           cached == load_openalex_works_from_cache(cache_files, wanted_ids)
           missing_ids == SortedStrings(wanted_ids \ DOMAIN cached)
       IN  /\ works_by_id' = cached
           /\ IF missing_ids # << >> /\ ~args.skip_network
              THEN /\ pending_batches' = _chunks(missing_ids, args.batch_size)
                   /\ main_pc' = "fetch"
              ELSE /\ pending_batches' = << >>
                   /\ main_pc' = "refresh"
    /\ UNCHANGED << today, cache_files, output_file, manifest_file, args, source_records,
                    deduped, fetched, cache_files_written, output_changed,
                    manifest_changed, runs, fetch_error, run_start, prev_run, save_calls >>
    /\ UNCHANGED << dedupeVars, idsVars, foldVars, landingVars, fetchVars >>

\* One iteration of the while loop of fetch_openalex_works.  failures is
\* the number of attempts of the request that fail before one succeeds;
\* with all of them failing there is no payload, and a batch of several
\* ids is split while a batch of one id raises RuntimeError, which nothing
\* in main catches: the process ends there.
FetchBatch ==
    /\ main_pc = "fetch"
    /\ pending_batches # << >>
    /\ \E failures \in 0..FETCH_ATTEMPTS :
        LET batch == Head(pending_batches)
            rest == Tail(pending_batches)
            payload == ApiResponse(batch)
            saved == _save_openalex_batch_to_cache(cache_files, batch, payload)
        IN  IF failures = FETCH_ATTEMPTS /\ Len(batch) > 1
            THEN /\ pending_batches' = SplitBatch(batch) \o rest
                 /\ UNCHANGED << cache_files, fetched, cache_files_written, fetch_error,
                                 main_pc >>
            ELSE IF failures = FETCH_ATTEMPTS
            THEN /\ fetch_error' = batch[1]
                 /\ main_pc' = "aborted"
                 /\ UNCHANGED << cache_files, fetched, cache_files_written,
                                 pending_batches >>
            ELSE /\ cache_files' = saved.cache_files
                 /\ cache_files_written' = cache_files_written + (IF saved.written THEN 1 ELSE 0)
                 /\ fetched' = DictUpdate(fetched, FetchedWorks(payload))
                 /\ pending_batches' = rest
                 /\ UNCHANGED << fetch_error, main_pc >>
    /\ UNCHANGED << today, output_file, manifest_file, args, source_records, deduped,
                    works_by_id, output_changed, manifest_changed, runs, run_start,
                    prev_run, save_calls >>
    /\ UNCHANGED << dedupeVars, idsVars, foldVars, landingVars, fetchVars >>

\* fetch_openalex_works returns; works_by_id.update(fetched)
FetchReturn ==
    /\ main_pc = "fetch"
    /\ pending_batches = << >>
    /\ works_by_id' = DictUpdate(works_by_id, fetched)
    /\ main_pc' = "refresh"
    /\ UNCHANGED << today, cache_files, output_file, manifest_file, args, source_records,
                    deduped, pending_batches, fetched, cache_files_written,
                    output_changed, manifest_changed, runs, fetch_error, run_start,
                    prev_run, save_calls >>
    /\ UNCHANGED << dedupeVars, idsVars, foldVars, landingVars, fetchVars >>

\* apply_openalex_refresh; the landing cache is not saved, the fallback
\* being switched off.
MainRefresh ==
    /\ main_pc = "refresh"
    /\ deduped' = apply_openalex_refresh(deduped, works_by_id)
    /\ main_pc' = "assemble"
    /\ UNCHANGED << today, cache_files, output_file, manifest_file, args, source_records,
                    works_by_id, pending_batches, fetched, cache_files_written,
                    output_changed, manifest_changed, runs, fetch_error, run_start,
                    prev_run, save_calls >>
    /\ UNCHANGED << dedupeVars, idsVars, foldVars, landingVars, fetchVars >>

\* ensure_unique_ids(deduped); sort_papers(deduped)
MainAssemble ==
    /\ main_pc = "assemble"
    /\ deduped' = sort_papers(ensure_unique_ids(deduped))
    /\ main_pc' = "save"
    /\ UNCHANGED << today, cache_files, output_file, manifest_file, args, source_records,
                    works_by_id, pending_batches, fetched, cache_files_written,
                    output_changed, manifest_changed, runs, fetch_error, run_start,
                    prev_run, save_calls >>
    /\ UNCHANGED << dedupeVars, idsVars, foldVars, landingVars, fetchVars >>

\* output_changed = save_json(output_path, bundle)
MainSave ==
    /\ main_pc = "save"
    /\ LET text == BundleText(deduped)
           result == save_json(output_file, text)
       IN  /\ output_file' = result.file
           /\ output_changed' = result.returned
           /\ save_calls' = Append(save_calls, SaveCall("output", output_file, text, result))
    /\ main_pc' = "manifest"
    /\ UNCHANGED << today, cache_files, manifest_file, args, source_records, deduped,
                    works_by_id, pending_batches, fetched, cache_files_written,
                    manifest_changed, runs, fetch_error, run_start, prev_run >>
    /\ UNCHANGED << dedupeVars, idsVars, foldVars, landingVars, fetchVars >>

\* update_manifest with force_bump_data_version=output_changed, and the
\* end of main.
MainManifest ==
    /\ main_pc = "manifest"
    /\ LET data_version == IsoDate(today) \o DATA_VERSION_SUFFIX
           result == update_manifest(manifest_file, OUTPUT_NAME, data_version, output_changed)
       IN  /\ manifest_file' = result.file
           /\ manifest_changed' = result.changed
           /\ save_calls' =
                IF result.saved
                THEN Append(save_calls,
                            SaveCall("manifest", manifest_file, result.text,
                                     save_json(manifest_file, result.text)))
                ELSE save_calls
    /\ main_pc' = "done"
    /\ UNCHANGED << today, cache_files, output_file, args, source_records, deduped,
                    works_by_id, pending_batches, fetched, cache_files_written,
                    output_changed, runs, fetch_error, run_start, prev_run >>
    /\ UNCHANGED << dedupeVars, idsVars, foldVars, landingVars, fetchVars >>

\* The clock reaches the next day while no run is under way.
DayPasses ==
    /\ BetweenRuns
    /\ today < MaxDays
    /\ today' = today + 1
    /\ UNCHANGED << cache_files, output_file, manifest_file, main_pc, args, source_records,
                    deduped, works_by_id, pending_batches, fetched, cache_files_written,
                    output_changed, manifest_changed, runs, fetch_error, run_start,
                    prev_run, save_calls >>
    /\ UNCHANGED << dedupeVars, idsVars, foldVars, landingVars, fetchVars >>

\* build-papers-catalog.py ends by writing its own manifest.
CatalogWritesManifest ==
    /\ BetweenRuns
    /\ manifest_file' = File(ManifestText(CatalogManifest(today)))
    /\ manifest_file' # manifest_file
    /\ UNCHANGED << today, cache_files, output_file, main_pc, args, source_records,
                    deduped, works_by_id, pending_batches, fetched, cache_files_written,
                    output_changed, manifest_changed, runs, fetch_error, run_start,
                    prev_run, save_calls >>
    /\ UNCHANGED << dedupeVars, idsVars, foldVars, landingVars, fetchVars >>

MainNext ==
    \/ StartRun
    \/ MainLoad
    \/ MainDedupe
    \/ MainScanCache
    \/ FetchBatch
    \/ FetchReturn
    \/ MainRefresh
    \/ MainAssemble
    \/ MainSave
    \/ MainManifest
    \/ DayPasses
    \/ CatalogWritesManifest

SpecMain == MainInit /\ [][MainNext]_vars

(***************************************************************************)
(* The merge loop of one group of dedupe_records, one call of              *)
(* merge_records per step.                                                 *)
(***************************************************************************)

FoldInit ==
    /\ fold_best \in MergeRecordPool
    /\ fold_members \in UNION { [1..n -> MergeRecordPool] : n \in 1..MaxMembers }
    /\ fold_idx = 1
    /\ fold_result = fold_best
    /\ fold_call = NoCall
    /\ DedupeIdle
    /\ IdsIdle
    /\ MainIdle
    /\ LandingIdle
    /\ FetchIdle

\* result = merge_records(result, records[idx])
FoldMember ==
    /\ fold_idx <= Len(fold_members)
    /\ fold_result' = merge_records(fold_result, fold_members[fold_idx])
    /\ fold_call' = [ base |-> fold_result, incoming |-> fold_members[fold_idx],
                      out |-> fold_result' ]
    /\ fold_idx' = fold_idx + 1
    /\ UNCHANGED << fold_best, fold_members >>
    /\ UNCHANGED << dedupeVars, idsVars, mainVars, landingVars, fetchVars >>

FoldNext ==
    FoldMember

SpecFold == FoldInit /\ [][FoldNext]_vars

(***************************************************************************)
(* The runs of main with the landing fallback, from load_landing_cache to  *)
(* save_landing_cache: one iteration of the loop of apply_openalex_refresh *)
(* per step.  The papers are the same in every run; between two runs the   *)
(* clock may advance and OpenAlex may update a work.  The text of a page   *)
(* is given by the candidates _extract_meta_candidates finds in it.        *)
(***************************************************************************)

\* The works of the first run, by short id.
LandingWorks ==
    [id \in { SHORT_W1, SHORT_W5, SHORT_W6, SHORT_W8 } |->
        IF id = SHORT_W1 THEN WORK_W1
        ELSE IF id = SHORT_W5 THEN WORK_W5(UPDATED_DATE_1)
        ELSE IF id = SHORT_W6 THEN WORK_W6(UPDATED_DATE_1)
        ELSE WORK_W8(<< >>)]

LandingArgs ==
    [ skip_landing_fallback : BOOLEAN,
      landing_max_probes : 0..MaxProbeBudget,
      landing_miss_recheck_days : 0..MaxRecheckDays ]

\* The cache file before the first run: load_landing_cache returns
\* whatever object the file holds, here one entry without a status whose
\* title is the name of the site.
LegacyCache ==
    [ id \in { SHORT_W6 } |-> [NoEntry EXCEPT !.title = TITLE_PROJECT] ]

LandingInit ==
    /\ landing_day = 1
    /\ landing_works = LandingWorks
    /\ landing_cache_file = LegacyCache
    /\ landing_args = NoLandingArgs
    /\ landing_pc = "idle"
    /\ landing_papers = << >>
    /\ landing_cache = << >>
    /\ landing_idx = 1
    /\ landing_probes = 0
    /\ landing_skipped_budget = 0
    /\ landing_probed_on = << >>
    /\ landing_step = NoStep
    /\ landing_runs = 0
    /\ DedupeIdle
    /\ IdsIdle
    /\ MainIdle
    /\ FoldIdle
    /\ FetchIdle

\* main up to the call of apply_openalex_refresh: the command line is
\* parsed and load_landing_cache reads the cache file.
LandingStart ==
    /\ landing_pc = "idle"
    /\ landing_runs < MaxLandingRuns
    /\ landing_args' \in LandingArgs
    /\ landing_cache' = landing_cache_file
    /\ landing_papers' = LandingPapers
    /\ landing_idx' = 1
    /\ landing_probes' = 0
    /\ landing_skipped_budget' = 0
    /\ landing_step' = NoStep
    /\ landing_runs' = landing_runs + 1
    /\ landing_pc' = "refresh"
    /\ UNCHANGED << landing_day, landing_works, landing_cache_file, landing_probed_on >>
    /\ UNCHANGED << dedupeVars, idsVars, mainVars, foldVars, fetchVars >>

\* The day of the last probe of a paper, None when it was never probed.
ProbedOn(short_id) ==
    IF short_id \in DOMAIN landing_probed_on THEN landing_probed_on[short_id] ELSE None

\* What an iteration leaves behind for a paper with a work: before is the
\* paper after the refresh from the work.
LandingIteration(short_id, work, before, outcome) ==
    /\ landing_papers' = [landing_papers EXCEPT ![landing_idx] = outcome.paper]
    /\ landing_cache' = outcome.landing_cache
    /\ landing_probes' = outcome.landing_probes
    /\ landing_skipped_budget' = outcome.landing_skipped_budget
    /\ landing_probed_on' =
           IF outcome.probed
           THEN [id \in DOMAIN landing_probed_on \cup { short_id } |->
                    IF id = short_id THEN landing_day ELSE landing_probed_on[id]]
           ELSE landing_probed_on
    /\ landing_step' =
           [ short_id |-> short_id,
             refreshed |-> TRUE,
             entry |-> EntryOf(landing_cache, short_id),
             probed_on |-> ProbedOn(short_id),
             work_updated |-> collapse_ws(PyStr(work.updated_date)),
             before |-> before,
             probes_before |-> landing_probes,
             skipped_before |-> landing_skipped_budget,
             probed |-> outcome.probed,
             found |-> outcome.found,
             applied |-> outcome.applied ]

\* The iteration for a paper with a work.
LandingRefreshed(short_id, work, before, up) ==
    IF landing_args.skip_landing_fallback
    THEN LandingIteration(short_id, work, before,
                          Outcome(before, landing_cache, landing_probes,
                                  landing_skipped_budget))
    ELSE LandingIteration(short_id, work, before,
                          FallbackPaper(work, short_id,
                                        Outcome(before, landing_cache, landing_probes,
                                                landing_skipped_budget),
                                        landing_args.landing_max_probes,
                                        landing_args.landing_miss_recheck_days,
                                        landing_day, up))

\* The URLs of a work that _fetch_text may be asked for.
FetchableUrls(urls) ==
    { urls[k] : k \in { j \in 1..Len(urls) : IsHttpUrl(urls[j]) } }

LandingWork(short_id, work) ==
    \E up \in SUBSET FetchableUrls(list_openalex_landing_urls(work)) :
        LandingRefreshed(short_id, work,
                         RefreshPaper(landing_papers[landing_idx], work, short_id), up)

\* The iteration with a miss stored for the id of the paper.
LandingNoWork_CachesMiss(short_id) ==
    /\ landing_step' =
           [ short_id |-> short_id,
             refreshed |-> FALSE,
             entry |-> EntryOf(landing_cache, short_id),
             probed_on |-> ProbedOn(short_id),
             work_updated |-> << >>,
             before |-> landing_papers[landing_idx],
             probes_before |-> landing_probes,
             skipped_before |-> landing_skipped_budget,
             probed |-> FALSE,
             found |-> NotFound,
             applied |-> FALSE ]
    /\ landing_cache' =
           [id \in DOMAIN landing_cache \cup { short_id } |->
               IF id = short_id THEN [NoEntry EXCEPT !.status = STATUS_MISS]
               ELSE landing_cache[id]]
    /\ UNCHANGED << landing_papers, landing_probes, landing_skipped_budget,
                    landing_probed_on >>

\* The iteration for a paper without a short id or without a work:
\* continue.
LandingNoWork(short_id) ==
    /\ landing_step' =
           [ short_id |-> short_id,
             refreshed |-> FALSE,
             entry |-> EntryOf(landing_cache, short_id),
             probed_on |-> ProbedOn(short_id),
             work_updated |-> << >>,
             before |-> landing_papers[landing_idx],
             probes_before |-> landing_probes,
             skipped_before |-> landing_skipped_budget,
             probed |-> FALSE,
             found |-> NotFound,
             applied |-> FALSE ]
    /\ UNCHANGED << landing_papers, landing_cache, landing_probes, landing_skipped_budget,
                    landing_probed_on >>

LandingShortId(short_id) ==
    IF short_id = << >> \/ short_id \notin DOMAIN landing_works
    THEN LandingNoWork(short_id)
    ELSE LandingWork(short_id, landing_works[short_id])

\* One iteration of the loop of apply_openalex_refresh.
LandingPaper ==
    /\ landing_pc = "refresh"
    /\ landing_idx <= Len(landing_papers)
    /\ LandingShortId(normalize_openalex_short_id(landing_papers[landing_idx].openalexId))
    /\ landing_idx' = landing_idx + 1
    /\ UNCHANGED << landing_day, landing_works, landing_cache_file, landing_args,
                    landing_pc, landing_runs >>
    /\ UNCHANGED << dedupeVars, idsVars, mainVars, foldVars, fetchVars >>

\* The return of apply_openalex_refresh and save_landing_cache, which main
\* calls when the fallback was enabled.
LandingSave ==
    /\ landing_pc = "refresh"
    /\ landing_idx > Len(landing_papers)
    /\ landing_cache_file' = IF landing_args.skip_landing_fallback
                             THEN landing_cache_file
                             ELSE landing_cache
    /\ landing_pc' = "idle"
    /\ UNCHANGED << landing_day, landing_works, landing_args, landing_papers,
                    landing_cache, landing_idx, landing_probes, landing_skipped_budget,
                    landing_probed_on, landing_step, landing_runs >>
    /\ UNCHANGED << dedupeVars, idsVars, mainVars, foldVars, fetchVars >>

\* A day passes between two runs.
LandingDayPasses ==
    /\ landing_pc = "idle"
    /\ landing_day < MaxLandingDays
    /\ landing_day' = landing_day + 1
    /\ UNCHANGED << landing_works, landing_cache_file, landing_args, landing_pc,
                    landing_papers, landing_cache, landing_idx, landing_probes,
                    landing_skipped_budget, landing_probed_on, landing_step,
                    landing_runs >>
    /\ UNCHANGED << dedupeVars, idsVars, mainVars, foldVars, fetchVars >>

\* OpenAlex updates the work of the first paper between two runs.
LandingWorkUpdated ==
    /\ landing_pc = "idle"
    /\ landing_works[SHORT_W5].updated_date = UPDATED_DATE_1
    /\ landing_works' = [landing_works EXCEPT ![SHORT_W5] = WORK_W5(UPDATED_DATE_2)]
    /\ UNCHANGED << landing_day, landing_cache_file, landing_args, landing_pc,
                    landing_papers, landing_cache, landing_idx, landing_probes,
                    landing_skipped_budget, landing_probed_on, landing_step,
                    landing_runs >>
    /\ UNCHANGED << dedupeVars, idsVars, mainVars, foldVars, fetchVars >>

LandingNext ==
    \/ LandingStart
    \/ LandingPaper
    \/ LandingSave
    \/ LandingDayPasses
    \/ LandingWorkUpdated

SpecLanding == LandingInit /\ [][LandingNext]_vars

(***************************************************************************)
(* fetch_openalex_works on its own: the while loop over pending_batches   *)
(* for any list of ids main may pass, sorted and without duplicates, any   *)
(* batch size and any pattern of failing requests.  The payloads are left  *)
(* out; fetch_batches records the batches that were answered.              *)
(***************************************************************************)

\* The most ids and the largest --batch-size of the model.
MaxFetchIds == 5

MaxFetchBatchSize == 4

\* Ids in the order sorted() gives them.
FETCH_ID_POOL == << SHORT_W1, SHORT_W2, SHORT_W3, SHORT_W5, SHORT_W6 >>

FetchInit ==
    /\ fetch_ids \in { SubSeq(FETCH_ID_POOL, 1, n) : n \in 0..MaxFetchIds }
    /\ fetch_batch_size \in 1..MaxFetchBatchSize
    /\ fetch_pending = << >>
    /\ fetch_batches = << >>
    /\ fetch_pc = "entry"
    /\ fetch_step = NoStep
    /\ DedupeIdle
    /\ IdsIdle
    /\ MainIdle
    /\ FoldIdle
    /\ LandingIdle

\* The entry of fetch_openalex_works: no ids, no request.
FetchEnter ==
    /\ fetch_pc = "entry"
    /\ IF fetch_ids = << >>
       THEN /\ fetch_pc' = "returned"
            /\ UNCHANGED fetch_pending
       ELSE /\ fetch_pending' = _chunks(fetch_ids, fetch_batch_size)
            /\ fetch_pc' = "loop"
    /\ UNCHANGED << fetch_ids, fetch_batch_size, fetch_batches, fetch_step >>
    /\ UNCHANGED << dedupeVars, idsVars, mainVars, foldVars, landingVars >>

\* One iteration of the while loop: the batch at the head is requested;
\* failures is the number of attempts that fail.
FetchIteration ==
    /\ fetch_pc = "loop"
    /\ fetch_pending # << >>
    /\ \E failures \in 0..FETCH_ATTEMPTS :
        /\ fetch_step' = [ batch |-> Head(fetch_pending), rest |-> Tail(fetch_pending),
                           failed |-> failures = FETCH_ATTEMPTS ]
        /\ IF failures = FETCH_ATTEMPTS /\ Len(Head(fetch_pending)) > 1
           THEN /\ fetch_pending' = SplitBatch(Head(fetch_pending)) \o Tail(fetch_pending)
                /\ UNCHANGED << fetch_batches, fetch_pc >>
           ELSE IF failures = FETCH_ATTEMPTS
           THEN /\ fetch_pc' = "raised"
                /\ fetch_pending' = Tail(fetch_pending)
                /\ UNCHANGED fetch_batches
           ELSE /\ fetch_batches' = Append(fetch_batches, Head(fetch_pending))
                /\ fetch_pending' = Tail(fetch_pending)
                /\ UNCHANGED fetch_pc
    /\ UNCHANGED << fetch_ids, fetch_batch_size >>
    /\ UNCHANGED << dedupeVars, idsVars, mainVars, foldVars, landingVars >>

\* The loop ends with no batch pending: return out, cache_files_written
FetchExit ==
    /\ fetch_pc = "loop"
    /\ fetch_pending = << >>
    /\ fetch_pc' = "returned"
    /\ UNCHANGED << fetch_ids, fetch_batch_size, fetch_pending, fetch_batches, fetch_step >>
    /\ UNCHANGED << dedupeVars, idsVars, mainVars, foldVars, landingVars >>

FetchNext ==
    \/ FetchEnter
    \/ FetchIteration
    \/ FetchExit

SpecFetch == FetchInit /\ [][FetchNext]_vars

\* The process is not stopped: a step of the function that can be taken is
\* taken.
SpecFetchRuns == FetchInit /\ [][FetchNext]_vars /\ WF_vars(FetchNext)

(***************************************************************************)
(* Properties of load_source_records and dedupe_records.                   *)
(***************************************************************************)

ShareOpenAlexId(a, b) ==
    /\ normalize_openalex_short_id(a.openalexId) # << >>
    /\ normalize_openalex_short_id(a.openalexId) = normalize_openalex_short_id(b.openalexId)

ShareDoi(a, b) ==
    /\ normalize_doi(a.doi) # << >>
    /\ normalize_doi(a.doi) = normalize_doi(b.doi)

\* The same non-empty year and the same non-empty normalized title.
ShareYearTitle(a, b) ==
    /\ collapse_ws(a.year) # << >>
    /\ collapse_ws(a.year) = collapse_ws(b.year)
    /\ normalize_title_key(a.title) # << >>
    /\ normalize_title_key(a.title) = normalize_title_key(b.title)

\* The URL of a blog record: paperUrl, or sourceUrl when there is none.
BlogUrl(r) ==
    IF collapse_ws(r.paperUrl) # << >> THEN collapse_ws(r.paperUrl)
    ELSE collapse_ws(r.sourceUrl)

\* Two blog records with the same URL up to letter case.
ShareBlogUrl(a, b) ==
    /\ is_blog(a) /\ is_blog(b)
    /\ BlogUrl(a) # << >>
    /\ ToLower(BlogUrl(a)) = ToLower(BlogUrl(b))

\* What links two records as the same work: an OpenAlex ID, a DOI, a blog
\* URL, or (neither being a blog record) year and title.
Linked(a, b) ==
    \/ ShareOpenAlexId(a, b)
    \/ ShareDoi(a, b)
    \/ ShareBlogUrl(a, b)
    \/ (~is_blog(a) /\ ~is_blog(b) /\ ShareYearTitle(a, b))

RECURSIVE Component(_, _)
\* The indices reachable from the set S along the pairs of links.
Component(S, links) ==
    LET more == S \cup { p[2] : p \in { q \in links : q[1] \in S } }
    IN  IF more = S THEN S ELSE Component(more, links)

Indices == 1..Len(records)

LinkPairs ==
    UNION { { <<i, j>> : j \in { k \in Indices : Linked(records[i], records[k]) } } :
            i \in Indices }

\* The identity keys of every member of S, S being a set of indices of
\* records or a set of records.
KeyTable(S, Record(_)) ==
    { <<x, Range(record_identity_keys(Record(x)))>> : x \in S }

\* The pairs of a key table whose members have an identity key in common.
SharePairs(table) ==
    UNION { { <<p[1], q[1]>> : q \in { t \in table : t[2] \cap p[2] # {} } } :
            p \in table }

RecordAt(i) == records[i]

\* Pairs of indices of records that have an identity key in common.
KeyPairs ==
    SharePairs(KeyTable(Indices, RecordAt))

\* Records i and j were folded into the same canonical record.
SameOutput(i, j) ==
    \E g \in 1..Len(groups) :
        i \in Range(groups[g].members) /\ j \in Range(groups[g].members)

\* The root of i in the DSU as it stands (no path is compressed).
RootOf(i) ==
    DSU_find(dsu.parent, i).root

\* C1 as stated: every pair of records that share an OpenAlex short ID, a
\* normalized DOI or a (year, normalized title) pair, and are not both
\* blog-kind, ends in the same output record.
C1_SharedKeyPairsMergeUnlessBothBlog ==
    dedupe_pc = "done" =>
        \A i, j \in Indices :
            ( /\ i # j
              /\ \/ ShareOpenAlexId(records[i], records[j])
                 \/ ShareDoi(records[i], records[j])
                 \/ ShareYearTitle(records[i], records[j])
              /\ ~(is_blog(records[i]) /\ is_blog(records[j])) )
            => SameOutput(i, j)

\* C1 amended: every pair of records that share an OpenAlex short ID or a
\* normalized DOI and are not both blog-kind, or that are both not
\* blog-kind and share a non-empty year and normalized title, ends in the
\* same output record; there is one output record per group.
C1_SharedKeyPairsMerge ==
    dedupe_pc = "done" =>
        /\ Len(merged) = Len(groups)
        /\ \A i, j \in Indices :
            ( /\ i # j
              /\ \/ /\ \/ ShareOpenAlexId(records[i], records[j])
                       \/ ShareDoi(records[i], records[j])
                    /\ ~(is_blog(records[i]) /\ is_blog(records[j]))
                 \/ /\ ShareYearTitle(records[i], records[j])
                    /\ ~is_blog(records[i])
                    /\ ~is_blog(records[j]) )
            => SameOutput(i, j)

\* A finished run with a pair merged by OpenAlex ID alone, a pair merged by
\* DOI alone and a pair of non-blog records merged by year and title alone.
C1_Witness ==
    /\ dedupe_pc = "done"
    /\ \E i, j \in Indices :
        /\ i # j /\ SameOutput(i, j)
        /\ ShareOpenAlexId(records[i], records[j])
        /\ ~ShareDoi(records[i], records[j])
        /\ ~ShareYearTitle(records[i], records[j])
        /\ ~(is_blog(records[i]) /\ is_blog(records[j]))
    /\ \E i, j \in Indices :
        /\ i # j /\ SameOutput(i, j)
        /\ ShareDoi(records[i], records[j])
        /\ ~ShareOpenAlexId(records[i], records[j])
        /\ ~ShareYearTitle(records[i], records[j])
    /\ \E i, j \in Indices :
        /\ i # j /\ SameOutput(i, j)
        /\ ShareYearTitle(records[i], records[j])
        /\ ~is_blog(records[i]) /\ ~is_blog(records[j])
        /\ ~ShareOpenAlexId(records[i], records[j])
        /\ ~ShareDoi(records[i], records[j])

\* Two blog-kind records with different URLs, no common DOI and no common
\* OpenAlex ID.
UnrelatedBlogPosts(a, b) ==
    /\ is_blog(a) /\ is_blog(b)
    /\ BlogUrl(a) # BlogUrl(b)
    /\ ~ShareDoi(a, b)
    /\ ~ShareOpenAlexId(a, b)

\* C2 as stated: two blog-kind records with different URLs, no shared DOI
\* and no shared OpenAlex ID are never merged, whatever else is in the input.
C2_BlogPostsNeverMerged ==
    dedupe_pc = "done" =>
        \A i, j \in Indices :
            (i # j /\ UnrelatedBlogPosts(records[i], records[j])) => ~SameOutput(i, j)

\* C2 amended: two blog-kind records whose URLs differ beyond letter case
\* and that share no DOI and no OpenAlex ID are merged only when other
\* records link them by a chain of shared OpenAlex IDs, DOIs, blog URLs or
\* year-title keys; their own titles and years never link them.
C2_BlogPostsMergedOnlyByChain ==
    dedupe_pc = "done" =>
        \A i, j \in Indices :
            ( /\ i # j
              /\ UnrelatedBlogPosts(records[i], records[j])
              /\ ToLower(BlogUrl(records[i])) # ToLower(BlogUrl(records[j]))
              /\ SameOutput(i, j) )
            => /\ j \in Component({ i }, LinkPairs)
               /\ \E k \in Indices \ { i, j } : SameOutput(i, k)

\* A finished run that kept apart two blog posts with the same title and
\* year and different URLs.
C2_Witness ==
    /\ dedupe_pc = "done"
    /\ \E i, j \in Indices :
        /\ i # j
        /\ UnrelatedBlogPosts(records[i], records[j])
        /\ ShareYearTitle(records[i], records[j])
        /\ ~SameOutput(i, j)

\* The classes of a set of records under the closure of sharing an
\* identity key: a function of the set alone, not of any order.
Itself(r) == r

KeyClasses(S) ==
    LET keyed == SharePairs(KeyTable(S, Itself))
    IN  { Component({ r }, keyed) : r \in S }

\* C3: once the union loop has ended, two indices have the same root
\* exactly when a chain of records, each sharing an identity key with the
\* next, links them; the groups built from the roots are those classes,
\* and as sets of records they are the classes of the set of input
\* records, whatever the order of the list.
C3_RootsAreKeyClosure ==
    LET pairs == KeyPairs
        classes == { Component({ i }, pairs) : i \in Indices }
    IN  /\ dedupe_pc \in { "group", "merge", "done" } /\ records # << >> =>
            /\ \A i, j \in Indices :
                (RootOf(i) = RootOf(j)) <=> (\E c \in classes : i \in c /\ j \in c)
            /\ { { records[i] : i \in { j \in Indices : RootOf(j) = r } } :
                    r \in { RootOf(i) : i \in Indices } }
               = KeyClasses(Range(records))
        /\ dedupe_pc \in { "merge", "done" } =>
            { Range(groups[g].members) : g \in 1..Len(groups) } = classes

\* The union loop has ended with two records in one class that share no
\* key themselves, and with a second class.
C3_Witness ==
    /\ dedupe_pc = "group"
    /\ \E i, j \in Indices :
        /\ RootOf(i) = RootOf(j)
        /\ <<i, j>> \notin KeyPairs
    /\ \E i, j \in Indices : RootOf(i) # RootOf(j)

IsScenario ==
    bundle_paths = << BundleA, BundleB >> \/ bundle_paths = << BundleB, BundleA >>

\* C4 as stated: the two bundles of the end-to-end scenario give one record
\* with doi 10.1/abc, the real abstract, citationCount 5 and source
\* openalex-discovery.
C4_ScenarioLowercaseDoi ==
    (IsScenario /\ dedupe_pc = "done") =>
        /\ Len(merged) = 1
        /\ merged[1].doi = DOI_SCENARIO_A
        /\ merged[1].abstract = ABSTRACT_SCENARIO_B
        /\ merged[1].citationCount = 5
        /\ merged[1].source = SRC_OPENALEX_DISCOVERY

\* C4 amended: the two bundles give one record with the doi of bundle B as
\* written, 10.1/ABC (it is not DOI-shaped, so nothing normalizes it), the
\* real abstract, citationCount 5 and source openalex-discovery.
C4_Scenario ==
    (IsScenario /\ dedupe_pc = "done") =>
        /\ Len(merged) = 1
        /\ merged[1].doi = DOI_SCENARIO_B
        /\ merged[1].abstract = ABSTRACT_SCENARIO_B
        /\ merged[1].citationCount = 5
        /\ merged[1].source = SRC_OPENALEX_DISCOVERY

C4_Witness ==
    bundle_paths = << BundleA, BundleB >> /\ dedupe_pc = "done" /\ Len(merged) = 1

\* C7: a bundle whose papers value is missing or not a list is fatal:
\* load_source_records does not return and dedupe never starts.
C7_MalformedBundleIsFatal ==
    (\E i \in 1..path_idx : ~IsList(bundle_paths[i].papers))
        => dedupe_pc = "load"

(***************************************************************************)
(* Properties of ensure_unique_ids.                                        *)
(***************************************************************************)

IdsDone ==
    ids_idx > Len(ids_papers)

\* f"{base_id}-{k}"
Suffixed(base_id, k) ==
    base_id \o << "-" >> \o PyStrInt(k)

\* The ids assigned to the records before record i.
EarlierIds(i) ==
    { ids_papers[j].id : j \in 1..(i - 1) }

\* The records before record j whose base id is that of record j.
EarlierSameBase(j) ==
    { i \in 1..(j - 1) : BaseId(ids_input[i]) = BaseId(ids_input[j]) }

\* C8: after ensure_unique_ids all ids are non-empty and pairwise distinct;
\* a record keeps its base id (its id with the white space collapsed, else
\* openalex-<lowercased short id>, else "paper") when no earlier record was
\* assigned it, and otherwise gets base-k for the smallest k >= 2 not yet
\* assigned; the second of two records with base id openalex-w123 gets
\* openalex-w123-2 (no earlier record having been assigned that id).
C8_UniqueIds ==
    IdsDone =>
        /\ \A i \in 1..Len(ids_papers) : ids_papers[i].id # << >>
        /\ \A i, j \in 1..Len(ids_papers) :
            i # j => ids_papers[i].id # ids_papers[j].id
        /\ \A i \in 1..Len(ids_papers) :
            IF BaseId(ids_input[i]) \notin EarlierIds(i)
            THEN ids_papers[i].id = BaseId(ids_input[i])
            ELSE \E k \in 2..(Len(ids_papers) + 1) :
                    /\ ids_papers[i].id = Suffixed(BaseId(ids_input[i]), k)
                    /\ ids_papers[i].id \notin EarlierIds(i)
                    /\ \A m \in 2..(k - 1) :
                        Suffixed(BaseId(ids_input[i]), m) \in EarlierIds(i)
        /\ \A j \in 1..Len(ids_papers) :
            ( /\ BaseId(ids_input[j]) = ID_OPENALEX_W123
              /\ Cardinality(EarlierSameBase(j)) = 1
              /\ Suffixed(ID_OPENALEX_W123, 2) \notin EarlierIds(j) )
            => ids_papers[j].id = Suffixed(ID_OPENALEX_W123, 2)

\* Three records with one base id, the first made from the OpenAlex id and
\* the others from the id: the second got -2 and the third -3.
C8_Witness ==
    /\ IdsDone
    /\ Len(ids_papers) = 3
    /\ ids_input[1].id = << >>
    /\ \A i \in 1..3 : BaseId(ids_input[i]) = ID_OPENALEX_W123
    /\ ids_papers[2].id = Suffixed(ID_OPENALEX_W123, 2)
    /\ ids_papers[3].id = Suffixed(ID_OPENALEX_W123, 3)

(***************************************************************************)
(* Properties of main, save_json and update_manifest.                      *)
(***************************************************************************)

\* The run under way and the run before it: the same bundles, both with
\* --skip-network, the same cache files when they started, and the run
\* before reached its end.
SameRunTwice ==
    /\ prev_run.finished
    /\ prev_run.args.bundles = args.bundles
    /\ prev_run.args.skip_network
    /\ args.skip_network
    /\ prev_run.cache_files = run_start.cache_files

OutputSaved ==
    main_pc \in { "manifest", "done" }

\* C5: the second of two runs on the same bundles, without network and with
\* the same cache, serializes the text the first run wrote, does not write
\* the output file and reports output changed = no.
C5_SecondRunLeavesOutput ==
    (SameRunTwice /\ OutputSaved) =>
        /\ output_file = prev_run.output_file
        /\ ~output_changed
        /\ \A k \in 1..Len(save_calls) :
            save_calls[k].path = "output" =>
                /\ save_calls[k].text = prev_run.output_file.text
                /\ ~save_calls[k].wrote

\* The second run has ended; the cache gave works and the output holds
\* papers.
C5_Witness ==
    /\ SameRunTwice
    /\ main_pc = "done"
    /\ DOMAIN works_by_id # {}
    /\ deduped # << >>
    /\ prev_run.output_file.exists

\* C6: when the request for a batch of one id fails at every attempt, the
\* pipeline does not abort: the run goes on.
C6_SingleIdFailureDoesNotAbort ==
    fetch_error # << >> => main_pc # "aborted"

\* C9: save_json writes and returns true exactly when the serialized text
\* differs from what is on disk (nothing, when the file does not exist);
\* when the text is the same it leaves the file as it is and returns false;
\* after the call the file holds the serialized text.
C9_SaveJson ==
    \A k \in 1..Len(save_calls) :
        LET call == save_calls[k]
            existing == IF call.before.exists THEN call.before.text ELSE << >>
        IN  /\ call.returned <=> (call.text # existing)
            /\ call.wrote <=> call.returned
            /\ ~call.returned => call.after = call.before
            /\ call.after.exists
            /\ call.after.text = call.text

\* One run called save_json on the output file, whose text was the same,
\* and on the manifest, whose text was another.
C9_Witness ==
    /\ \E k \in 1..Len(save_calls) :
        /\ save_calls[k].path = "output"
        /\ save_calls[k].before.exists
        /\ ~save_calls[k].returned
    /\ \E k \in 1..Len(save_calls) :
        /\ save_calls[k].path = "manifest"
        /\ save_calls[k].before.exists
        /\ save_calls[k].returned

\* The paperFiles list of a manifest file, [] when there is none.
PaperFilesOf(file) ==
    IF /\ HasKey(LoadManifest(file), KeyChars.paperFiles)
       /\ Get(LoadManifest(file), KeyChars.paperFiles).kind = "list"
    THEN Get(LoadManifest(file), KeyChars.paperFiles).value
    ELSE << >>

\* The entries of a manifest file other than paperFiles.
OtherEntries(file) ==
    SelectSeq(LoadManifest(file), LAMBDA entry : entry.key # KeyChars.paperFiles)

\* C10 as stated: a run modifies the manifest file only when the output
\* changed in that run (main forces the bump exactly then).
C10_ManifestOnlyWhenOutputChanged ==
    [][MainManifest => (manifest_file' # manifest_file => output_changed)]_vars

\* C10 amended: a run modifies the manifest file only when the output
\* changed in that run or paperFiles was not already the list of the one
\* output file name; in a run whose output is unchanged every entry but
\* paperFiles, dataVersion included, is left as it was.
C10_ManifestOnlyWhenOutputOrFilesChanged ==
    [][MainManifest =>
        /\ manifest_file' # manifest_file =>
            \/ output_changed
            \/ PaperFilesOf(manifest_file) # << OUTPUT_NAME >>
        /\ ~output_changed =>
            OtherEntries(manifest_file') = OtherEntries(manifest_file)]_vars

\* A run on a later day than the run before it, whose output is unchanged,
\* has left the manifest as it was.
C10_Witness ==
    /\ main_pc = "done"
    /\ runs = 2
    /\ today = 2
    /\ prev_run.finished
    /\ ~output_changed
    /\ run_start.manifest_file.exists
    /\ manifest_file = run_start.manifest_file
    /\ OtherEntries(manifest_file) # << >>

\* The dataVersion entry of a manifest file, << >> when it has none.
DataVersionOf(file) ==
    IF HasKey(LoadManifest(file), KeyChars.dataVersion)
    THEN Get(LoadManifest(file), KeyChars.dataVersion).value
    ELSE << >>

\* C11: after the manifest step of every run paperFiles is the list of the
\* one output file name; dataVersion becomes the stamp of the day of the
\* run, <ISO-date>-papers-single-db-openalex-v1, in a run that changed the
\* output and is left as it was in a run that did not.
C11_PaperFilesAndDataVersion ==
    [][MainManifest =>
        /\ PaperFilesOf(manifest_file') = << OUTPUT_NAME >>
        /\ output_changed =>
            DataVersionOf(manifest_file') = << IsoDate(today) \o DATA_VERSION_SUFFIX >>
        /\ ~output_changed =>
            DataVersionOf(manifest_file') = DataVersionOf(manifest_file)]_vars

\* A run whose output is unchanged found the manifest of
\* build-papers-catalog.py: it has put the output name in paperFiles and
\* left the dataVersion of that manifest.
C11_Witness ==
    /\ main_pc = "done"
    /\ ~output_changed
    /\ PaperFilesOf(run_start.manifest_file) = << CATALOG_BUNDLE_NAME >>
    /\ PaperFilesOf(manifest_file) = << OUTPUT_NAME >>
    /\ \E day \in 1..MaxDays :
        DataVersionOf(manifest_file) = << IsoDate(day) \o CATALOG_VERSION_SUFFIX >>

(***************************************************************************)
(* Properties of the canonical records: list fields, identifiers, scalar   *)
(* fields, authors and member order.                                       *)
(***************************************************************************)

\* No two entries of the list are equal ignoring case.
NoCaseDuplicates(values) ==
    \A i, j \in 1..Len(values) : i # j => ToLower(values[i]) # ToLower(values[j])

RECURSIVE FieldOfMembers(_, _, _)
\* The values of a list field in the members of a group from position k
\* on, in member order.
FieldOfMembers(field, members, k) ==
    IF k > Len(members) THEN << >>
    ELSE records[members[k]][field] \o FieldOfMembers(field, members, k + 1)

\* The values of a list field as the merge loop of a group meets them: the
\* base record first, then the other members in order.
SeenValues(field, members) ==
    LET best == BestMember(records, members)
    IN  records[best][field]
        \o FieldOfMembers(field, SelectSeq(members, LAMBDA m : m # best), 1)

WrittenIn(field) ==
    UNION { { bundle_paths[b].papers.items[p][field] :
                p \in 1..Len(bundle_paths[b].papers.items) } : b \in 1..path_idx }

\* C13 as stated: a canonical record holds a non-empty openalexId only in
\* the form https://openalex.org/<SHORT_ID> and a non-empty doi only in
\* normalized form.
C13_OnlyNormalizedIdentifiers ==
    \A g \in 1..Len(merged) :
        /\ merged[g].openalexId # << >> =>
            /\ normalize_openalex_short_id(merged[g].openalexId) # << >>
            /\ merged[g].openalexId =
                 canonical_openalex_url(normalize_openalex_short_id(merged[g].openalexId))
        /\ merged[g].doi # << >> =>
            /\ normalize_doi(merged[g].doi) # << >>
            /\ merged[g].doi = normalize_doi(merged[g].doi)

\* C13 amended: an openalexId in which normalize_openalex_short_id finds a
\* work id is in the form https://openalex.org/<SHORT_ID>, and a doi in
\* which normalize_doi finds a DOI is that DOI; a value of the model's
\* bundles in which none is found is in the canonical record as the bundle
\* has it.
C13_NormalizedWhenRecognized ==
    \A g \in 1..Len(merged) :
        /\ IF normalize_openalex_short_id(merged[g].openalexId) # << >>
           THEN merged[g].openalexId =
                  canonical_openalex_url(normalize_openalex_short_id(merged[g].openalexId))
           ELSE merged[g].openalexId \in WrittenIn("openalexId") \cup { << >> }
        /\ IF normalize_doi(merged[g].doi) # << >>
           THEN merged[g].doi = normalize_doi(merged[g].doi)
           ELSE merged[g].doi \in WrittenIn("doi") \cup { << >> }

\* Canonical records hold an id and a DOI that were rewritten on load, an
\* id that names no work and a doi that is not DOI-shaped.
C13_Witness ==
    /\ dedupe_pc = "done"
    /\ \E g \in 1..Len(merged) :
        /\ merged[g].openalexId = canonical_openalex_url(OPENALEX_W1_BARE)
        /\ merged[g].openalexId \notin WrittenIn("openalexId")
        /\ merged[g].doi = DOI_PLAIN
        /\ merged[g].doi \notin WrittenIn("doi")
    /\ \E g \in 1..Len(merged) : merged[g].openalexId = OPENALEX_AUTHOR_ID
    /\ \E g \in 1..Len(merged) : merged[g].doi = DOI_SCENARIO_B

\* The value the merge rule of the scalar fields gives a field.
ScalarRule(field, base_value, incoming_value) ==
    IF /\ field = "abstract"
       /\ is_placeholder_abstract(base_value)
       /\ collapse_ws(incoming_value) # << >>
       /\ ~is_placeholder_abstract(incoming_value)
    THEN incoming_value
    ELSE IF collapse_ws(base_value) # << >> THEN base_value
    ELSE IF collapse_ws(incoming_value) # << >> THEN incoming_value
    ELSE base_value

\* C14: merge_records(base, incoming) sets each scalar field to base's value
\* when that is non-empty and to incoming's when base's is empty and
\* incoming's is not, except abstract, which is also incoming's when base's
\* is a placeholder and incoming's is not; the placeholder of OpenAlex gives
\* way to the abstract about register allocation.  The records are those
\* load_source_records returns, whose openalexId is canonical already when it
\* names a work, so the rewriting at the end of merge_records changes nothing.
C14_ScalarFields ==
    fold_call # NoCall =>
        /\ \A f \in Range(scalar_fields) :
            fold_call.out[f] = ScalarRule(f, fold_call.base[f], fold_call.incoming[f])
        /\ ( /\ fold_call.base.abstract = ABSTRACT_PLACEHOLDER_OPENALEX
             /\ fold_call.incoming.abstract = ABSTRACT_REGISTER_ALLOCATION )
           => fold_call.out.abstract = ABSTRACT_REGISTER_ALLOCATION

\* A call whose base has the placeholder abstract and no title, and whose
\* incoming record has a real abstract and a title: both came from incoming,
\* the DOI from the base.
C14_Witness ==
    /\ fold_call # NoCall
    /\ fold_call.base.abstract = ABSTRACT_PLACEHOLDER_OPENALEX
    /\ fold_call.base.title = << >>
    /\ fold_call.incoming = LoadRecord(MergePaper2, SRC_OPENALEX_DISCOVERY, << >>)
    /\ fold_call.out.abstract = ABSTRACT_REGISTER_ALLOCATION
    /\ fold_call.out.title = TITLE_REGISTER_ALLOCATION
    /\ fold_call.out.source = fold_call.base.source

\* The names of an author list, whitespace collapsed, without the empty ones.
ValidNames(authors) ==
    SelectSeq([i \in 1..Len(authors) |-> collapse_ws(authors[i].name)],
              LAMBDA name : name # << >>)

\* How many names of the list satisfy the test.
CountNames(names, Test(_)) ==
    Cardinality({ i \in 1..Len(names) : Test(names[i]) })

\* The quality triple of incoming is lexicographically greater than that of
\* existing: more valid names, or as many and more names of six characters
\* or more, or as many of both and fewer names that are one initial.
BetterAuthors(existing, incoming) ==
    LET e == ValidNames(existing)
        n == ValidNames(incoming)
        IsLong(name) == Len(name) >= LONG_NAME_LEN
        e_long == CountNames(e, IsLong)
        n_long == CountNames(n, IsLong)
        e_initials == CountNames(e, IsInitialOnly)
        n_initials == CountNames(n, IsInitialOnly)
    IN  \/ Len(n) > Len(e)
        \/ Len(n) = Len(e) /\ n_long > e_long
        \/ Len(n) = Len(e) /\ n_long = e_long /\ n_initials < e_initials

\* C15: merge_authors returns the non-empty list when one list is empty;
\* when both are non-empty it returns incoming's list exactly when incoming's
\* quality triple is lexicographically greater, and base's list otherwise,
\* ties included; base [J. Smith] with incoming [Jane Smith, Robert Lee]
\* gives the incoming list.
C15_MergeAuthors ==
    fold_call # NoCall =>
        LET existing == fold_call.base.authors
            incoming == fold_call.incoming.authors
            out == fold_call.out.authors
        IN  /\ existing = << >> => out = incoming
            /\ incoming = << >> => out = existing
            /\ (existing # << >> /\ incoming # << >>) =>
                 out = IF BetterAuthors(existing, incoming) THEN incoming ELSE existing
            /\ ( /\ ValidNames(existing) = << NAME_J_SMITH >>
                 /\ ValidNames(incoming) = << NAME_JANE_SMITH, NAME_ROBERT_LEE >> )
               => out = incoming

\* A group whose best record has [J. Smith]: the first call returned the
\* [Jane Smith, Robert Lee] of incoming, and the second kept it on a tie
\* with another list of the same quality.
C15_Witness ==
    /\ fold_idx = 3
    /\ ValidNames(fold_best.authors) = << NAME_J_SMITH >>
    /\ ValidNames(fold_members[1].authors) = << NAME_JANE_SMITH, NAME_ROBERT_LEE >>
    /\ fold_call.base.authors = fold_members[1].authors
    /\ fold_call.incoming.authors # fold_call.base.authors
    /\ AuthorQuality(fold_call.incoming.authors) = AuthorQuality(fold_call.base.authors)
    /\ fold_result.authors = fold_members[1].authors

RECURSIVE FoldInOrder(_, _, _)
\* The merge loop of a group over the given members, from member k on.
FoldInOrder(result, members, k) ==
    IF k > Len(members) THEN result
    ELSE FoldInOrder(merge_records(result, members[k]), members, k + 1)

\* The records the merge loop gives for every order of the other members.
FoldResults ==
    { FoldInOrder(fold_best, [i \in 1..Len(fold_members) |-> fold_members[p[i]]], 1) :
        p \in Permutations(1..Len(fold_members)) }

\* The largest citation count of the records of the group, None when no
\* record has one.
LargestCount ==
    LET counts == { fold_best.citationCount }
                  \cup { fold_members[i].citationCount : i \in 1..Len(fold_members) }
    IN  IF counts = { None } THEN None ELSE Max(counts \ { None })

FoldDone ==
    fold_idx > Len(fold_members)

\* The values of a list ignoring letter case and order.
CaseKeys(values) ==
    { ToLower(values[i]) : i \in 1..Len(values) }

\* C16 as stated: for a fixed group and base record, folding the other
\* members in any order gives the same citationCount, the largest of the
\* group, and the same tags, keywords, matchedAuthors and matchedSubprojects
\* lists.
C16_SameListsInAnyOrder ==
    FoldDone =>
        /\ fold_result.citationCount = LargestCount
        /\ \A other \in FoldResults :
            /\ other.citationCount = fold_result.citationCount
            /\ \A f \in Range(list_fields) : other[f] = fold_result[f]

\* C16 amended: folding the other members in any order gives the same
\* citationCount, the largest of the group, and lists of tags, keywords,
\* matchedAuthors and matchedSubprojects that hold the same values up to
\* letter case and order, each once when a merge touched the list.
C16_SameValuesInAnyOrder ==
    FoldDone =>
        /\ fold_result.citationCount = LargestCount
        /\ \A other \in FoldResults :
            /\ other.citationCount = fold_result.citationCount
            /\ \A f \in Range(list_fields) :
                /\ CaseKeys(other[f]) = CaseKeys(fold_result[f])
                /\ Len(other[f]) = Len(fold_result[f])

\* Two members were folded into a base with a smaller citation count; the
\* other order gives the same count and tags in another order or case.
C16_Witness ==
    /\ FoldDone
    /\ Len(fold_members) = 2
    /\ fold_best.citationCount \notin { None, LargestCount }
    /\ fold_members[1].citationCount # fold_members[2].citationCount
    /\ \E other \in FoldResults :
        /\ other.tags # fold_result.tags
        /\ CaseKeys(other.tags) = CaseKeys(fold_result.tags)

(***************************************************************************)
(* Properties of apply_openalex_refresh.                                   *)
(***************************************************************************)

\* The papers of the run that the refresh has updated from a work.
RefreshedPapers ==
    { i \in 1..Len(deduped) :
        normalize_openalex_short_id(deduped[i].openalexId) \in DOMAIN works_by_id }

\* C20: when apply_openalex_refresh has updated a record from a work, a
\* non-empty sourceUrl of the record is not its paperUrl.
C20_SourceUrlIsNotPaperUrl ==
    main_pc = "assemble" =>
        \A i \in RefreshedPapers :
            deduped[i].sourceUrl # << >> => deduped[i].sourceUrl # deduped[i].paperUrl

(***************************************************************************)
(* Properties of the landing fallback of apply_openalex_refresh.           *)
(***************************************************************************)

\* The last iteration of the running loop probed a paper that an earlier
\* run had probed and left a hit or miss entry for.
ProbedAgain ==
    /\ landing_pc = "refresh"
    /\ landing_step # NoStep
    /\ landing_step.probed
    /\ landing_step.probed_on # None
    /\ landing_step.entry.status \in { STATUS_HIT, STATUS_MISS }

\* C17: a paper that a run probed, leaving a hit or miss entry in the
\* landing cache, is probed by a later run only if the updated_date of its
\* work differs from the sourceUpdatedAt of the entry or, for a miss entry,
\* at least landing_miss_recheck_days days have passed since the probe that
\* wrote the updatedAt of the entry.
C17_ProbeNotRepeated ==
    ProbedAgain =>
        \/ landing_step.work_updated # landing_step.entry.sourceUpdatedAt
        \/ /\ landing_step.entry.status = STATUS_MISS
           /\ landing_day - landing_step.probed_on
                  >= landing_args.landing_miss_recheck_days

\* A run with no probe limit and a recheck interval of one day meets the
\* miss entry an earlier run of the same day left, for a work that has not
\* changed, and does not probe the paper.
C17_Witness ==
    /\ landing_pc = "refresh"
    /\ landing_step # NoStep
    /\ ~landing_args.skip_landing_fallback
    /\ landing_args.landing_max_probes = 0
    /\ landing_args.landing_miss_recheck_days = 1
    /\ should_try_landing_fallback(landing_step.before)
    /\ landing_step.entry.status = STATUS_MISS
    /\ landing_step.entry.sourceUpdatedAt = landing_step.work_updated
    /\ landing_step.probed_on = landing_day
    /\ ~landing_step.probed

\* The last iteration of the loop probed a paper, and every call of
\* _fetch_text of the probe raised.
AllFetchesFailed ==
    /\ landing_step # NoStep
    /\ landing_step.probed
    /\ landing_step.found.fetched = << >>
    /\ landing_step.found.failed # << >>

\* The paper of the last iteration as the iteration left it.
LastPaper == landing_papers[landing_idx - 1]

\* C18: when every landing-page fetch of a probed paper fails, the paper
\* keeps the title and the abstract it had before the probe, the landing
\* cache holds for its id an entry of status miss with an empty title and an
\* empty abstract, and the loop has moved to the next paper.
C18_FailedFetchesLeaveMiss ==
    AllFetchesFailed =>
        /\ LastPaper.title = landing_step.before.title
        /\ LastPaper.abstract = landing_step.before.abstract
        /\ landing_step.short_id \in DOMAIN landing_cache
        /\ landing_cache[landing_step.short_id].status = STATUS_MISS
        /\ landing_cache[landing_step.short_id].title = << >>
        /\ landing_cache[landing_step.short_id].abstract = << >>
        /\ landing_idx >= 2
        /\ landing_pc \in { "refresh", "idle" }

\* The two pages of the first paper both fail; the loop is at the second
\* paper.
C18_Witness ==
    /\ AllFetchesFailed
    /\ landing_step.short_id = SHORT_W5
    /\ landing_step.found.failed = << URL_PAGE_CJK, URL_PAGE_ENGLISH >>
    /\ landing_step.before.title = TITLE_CJK
    /\ LastPaper.title = TITLE_CJK
    /\ landing_idx = 2
    /\ landing_pc = "refresh"

\* The eligible candidates of a list, as pairs of a label and a cleaned
\* value.
EligibleOf(candidates, Eligible(_)) ==
    { Candidate(candidates[k].label, strip_markup(candidates[k].value)) :
        k \in { j \in 1..Len(candidates) : Eligible(strip_markup(candidates[j].value)) } }

\* The eligible candidates that no eligible candidate outscores.
HighestScoring(eligible) ==
    { c \in eligible :
        \A d \in eligible :
            ~FractionLess(_score_english_candidate(c.label, c.value),
                          _score_english_candidate(d.label, d.value)) }

\* At least six tenths of the letters of the text are ASCII letters.
MostlyAscii(text) ==
    /\ SelectSeq(text, IsAlpha) # << >>
    /\ 10 * Len(SelectSeq(text, IsAsciiLetter)) >= 6 * Len(SelectSeq(text, IsAlpha))

\* At least nine tenths of the characters of the text are letters that are
\* not ASCII.
MostlyForeign(text) ==
    /\ text # << >>
    /\ 10 * (Len(SelectSeq(text, IsAlpha)) - Len(SelectSeq(text, IsAsciiLetter)))
           >= 9 * Len(text)

\* What the selection may return for the eligible candidates of a list.
SelectionOf(eligible, returned) ==
    IF returned # << >>
    THEN /\ MostlyAscii(returned)
         /\ \E c \in HighestScoring(eligible) : c.value = returned
    ELSE \A c \in HighestScoring(eligible) : ~MostlyAscii(c.value)

\* The selections of the probe of the last iteration: every page fetched
\* before the last one gave no title and no abstract, the last one gave the
\* title and the abstract found.
SelectionsOfProbe(pages, found) ==
    \A k \in 1..Len(pages) :
        /\ SelectionOf(EligibleOf(PageAt(pages[k]).titles, EligibleTitle),
                       IF k = Len(pages) THEN found.title ELSE << >>)
        /\ SelectionOf(EligibleOf(PageAt(pages[k]).abstracts, EligibleAbstract),
                       IF k = Len(pages) THEN found.abstract ELSE << >>)

\* The texts of the title candidates of the pages.
TitleCandidates ==
    UNION { { strip_markup(Web[url].titles[k].value) : k \in 1..Len(Web[url].titles) } :
            url \in DOMAIN Web }

\* C19: the selection of a probe returns a highest-scoring eligible
\* candidate only if at least six tenths of its letters are ASCII letters,
\* and the empty string otherwise; a title candidate nine tenths of whose
\* characters are letters outside ASCII is not returned by a probe, is not
\* kept in the landing cache and is not the title the fallback writes to a
\* paper.
C19_OnlyEnglishSelected ==
    landing_step # NoStep =>
        /\ landing_step.probed =>
               SelectionsOfProbe(landing_step.found.fetched, landing_step.found)
        /\ \A t \in TitleCandidates :
               MostlyForeign(t) =>
                   /\ landing_step.found.title # t
                   /\ \A id \in DOMAIN landing_cache : landing_cache[id].title # t
                   /\ LastPaper.title # landing_step.before.title => LastPaper.title # t
        /\ LastPaper.title # landing_step.before.title => MostlyAscii(LastPaper.title)

\* The probe of the first paper fetched a page with no English candidate,
\* then a page whose best-labelled title candidate is not English and
\* whose English candidate scores highest:
\* the English one replaced the title of the paper.
C19_Witness ==
    /\ landing_step # NoStep
    /\ landing_step.probed
    /\ landing_step.found.fetched = << URL_PAGE_CJK, URL_PAGE_ENGLISH >>
    /\ MostlyForeign(TITLE_CJK)
    /\ TITLE_CJK \in TitleCandidates
    /\ landing_step.before.title = TITLE_CJK
    /\ landing_step.found.title = TITLE_ENGLISH
    /\ LastPaper.title = TITLE_ENGLISH

(***************************************************************************)
(* Properties of fetch_openalex_works.                                     *)
(***************************************************************************)

\* How many times an id occurs in a list of batches.
Occurrences(id, batches) ==
    Cardinality(UNION { { << b, k >> : k \in { j \in 1..Len(batches[b]) :
                                                  batches[b][j] = id } } :
                        b \in 1..Len(batches) })

IdsOf(batches) ==
    UNION { Range(batches[b]) : b \in 1..Len(batches) }

\* The last iteration requested a batch of several ids and got no payload.
SplitStep ==
    /\ fetch_step # NoStep
    /\ fetch_step.failed
    /\ Len(fetch_step.batch) > 1

\* C21: a batch of n > 1 ids whose request fails is replaced at the head of
\* pending_batches by two non-empty batches, its first n \div 2 ids and the
\* rest of its ids, ahead of every batch that was pending behind it; and
\* while the function runs, the ids of the pending batches and of the
\* fetched batches are the input ids, each of them once.
C21_FailedBatchIsSplitInPlace ==
    /\ SplitStep =>
        /\ Len(fetch_pending) = Len(fetch_step.rest) + 2
        /\ fetch_pending[1] # << >>
        /\ fetch_pending[2] # << >>
        /\ Len(fetch_pending[1]) = Len(fetch_step.batch) \div 2
        /\ fetch_pending[1] \o fetch_pending[2] = fetch_step.batch
        /\ SubSeq(fetch_pending, 3, Len(fetch_pending)) = fetch_step.rest
    /\ fetch_pc \in { "loop", "returned" } =>
        /\ IdsOf(fetch_pending \o fetch_batches) = Range(fetch_ids)
        /\ \A id \in Range(fetch_ids) :
               Occurrences(id, fetch_pending \o fetch_batches) = 1

\* A batch of three ids failed with another batch pending behind it: one
\* id, then two, then the other batch.
C21_Witness ==
    /\ SplitStep
    /\ fetch_pc = "loop"
    /\ Len(fetch_step.batch) = 3
    /\ fetch_step.rest # << >>
    /\ Len(fetch_pending[1]) = 1
    /\ Len(fetch_pending[2]) = 2

\* fetch_openalex_works is over: it returned after every id was in a
\* fetched batch, or it raised on a batch of one id whose request failed.
FetchOver ==
    \/ /\ fetch_pc = "returned"
       /\ \A id \in Range(fetch_ids) : id \in IdsOf(fetch_batches)
    \/ /\ fetch_pc = "raised"
       /\ fetch_step # NoStep
       /\ fetch_step.failed
       /\ Len(fetch_step.batch) = 1

\* C27: for every list of ids, every batch size and every pattern of
\* failing requests fetch_openalex_works comes to an end: it returns with
\* every id part of a fetched batch, or it raises on a batch of one id whose
\* request failed.
C27_FetchTerminates ==
    <>FetchOver

\* The function returned after a batch was split twice: more batches were
\* fetched than _chunks made.
C27_Witness ==
    /\ fetch_pc = "returned"
    /\ Len(fetch_ids) = MaxFetchIds
    /\ fetch_batch_size = MaxFetchBatchSize
    /\ Len(fetch_batches) >= Len(_chunks(fetch_ids, fetch_batch_size)) + 2
    /\ \A id \in Range(fetch_ids) : id \in IdsOf(fetch_batches)

\* The priority tuple of a record: source priority, has OpenAlex id, has
\* DOI, has real abstract, has title, author count, citation count, tag
\* and keyword count.
PriorityTuple(record) ==
    << SOURCE_PRIORITY(collapse_ws(record.source)),
       IF normalize_openalex_short_id(record.openalexId) = << >> THEN 0 ELSE 1,
       IF normalize_doi(record.doi) = << >> THEN 0 ELSE 1,
       IF is_placeholder_abstract(record.abstract) THEN 0 ELSE 1,
       IF collapse_ws(record.title) = << >> THEN 0 ELSE 1,
       Cardinality({ a \in 1..Len(record.authors) :
                       collapse_ws(record.authors[a].name) # << >> }),
       IF record.citationCount = None THEN 0 ELSE record.citationCount,
       Len(record.tags) + Len(record.keywords) >>

\* Lexicographic order of two tuples of the same length.
TupleBefore(a, b) ==
    \E k \in 1..Len(a) : a[k] < b[k] /\ \A m \in 1..(k - 1) : a[m] = b[m]

\* C22: the base of every class is a member with the greatest priority
\* tuple, and every member that comes before it in the input list has a
\* smaller tuple.
C22_BaseIsFirstGreatest ==
    \A g \in 1..Len(best_members) :
        /\ best_members[g] \in Range(groups[g].members)
        /\ \A m \in Range(groups[g].members) :
               /\ ~TupleBefore(PriorityTuple(records[best_members[g]]),
                               PriorityTuple(records[m]))
               /\ m < best_members[g] =>
                      TupleBefore(PriorityTuple(records[m]),
                                  PriorityTuple(records[best_members[g]]))

\* Two classes were merged: in one the base is not the first member, in
\* the other two members share the greatest tuple and the first is the
\* base.
C22_Witness ==
    /\ \E g \in 1..Len(best_members) :
           best_members[g] # groups[g].members[1]
    /\ \E g \in 1..Len(best_members) :
           \E m \in Range(groups[g].members) :
               /\ m > best_members[g]
               /\ PriorityTuple(records[m]) = PriorityTuple(records[best_members[g]])

\* The keys of a record that are title keys.
TitleKeysOf(record) ==
    SelectSeq(record_identity_keys(record), LAMBDA key : StartsWith(key, TITLE_KEY_PREFIX))

\* C23: a loaded record has a title key, title:<year>:<title-key>, exactly
\* when it is not blog-kind, its year is a 4-digit string and its
\* normalized title key is not empty.
C23_TitleKeyNeedsFourDigitYear ==
    \A i \in 1..Len(records) :
        TitleKeysOf(records[i]) =
            IF /\ ~is_blog(records[i])
               /\ IsFourDigits(collapse_ws(records[i].year))
               /\ normalize_title_key(records[i].title) # << >>
            THEN << TITLE_KEY_PREFIX \o collapse_ws(records[i].year) \o << ":" >>
                       \o normalize_title_key(records[i].title) >>
            ELSE << >>

(***************************************************************************)
(* Properties of sort_papers.                                              *)
(***************************************************************************)

\* How many times a value occurs in a list.
CountIn(value, list) ==
    Cardinality({ k \in 1..Len(list) : list[k] = value })

IsPermutation(a, b) ==
    /\ Len(a) = Len(b)
    /\ \A value \in Range(a) \cup Range(b) : CountIn(value, a) = CountIn(value, b)

\* The list main hands to sort_papers: the refreshed records with their
\* ids made unique.
BeforeSort ==
    ensure_unique_ids(apply_openalex_refresh(dedupe_records(source_records), works_by_id))

\* C26: after sort_papers the list is a permutation of the list before it,
\* and the key of every record (its 4-digit year or 0000, its lowercased
\* title, its id) is greater than or equal to the key of the record after
\* it.
C26_SortedDescending ==
    main_pc = "save" =>
        /\ IsPermutation(deduped, BeforeSort)
        /\ \A k \in 1..(Len(deduped) - 1) :
               ~KeyLess(SortKey(deduped[k]), SortKey(deduped[k + 1]))

\* sort_papers moved records: the output has a year before an older one
\* and ends with a record without a 4-digit year.
C26_Witness ==
    /\ main_pc = "save"
    /\ deduped # BeforeSort
    /\ \E k \in 1..(Len(deduped) - 1) :
           /\ IsFourDigits(deduped[k].year)
           /\ IsFourDigits(deduped[k + 1].year)
           /\ StrLess(deduped[k + 1].year, deduped[k].year)
    /\ ~IsFourDigits(deduped[Len(deduped)].year)

(***************************************************************************)
(* Properties of the output of main.                                       *)
(***************************************************************************)

\* C29: in the output, after deduplication and refresh, no two records
\* have the same OpenAlex short id and no two records have the same
\* non-empty normalized DOI.
C29_OutputIdentifiersUnique ==
    main_pc \in { "save", "manifest", "done" } =>
        \A i, j \in 1..Len(deduped) :
            i # j =>
                /\ ~ShareOpenAlexId(deduped[i], deduped[j])
                /\ ~ShareDoi(deduped[i], deduped[j])

\* The last iteration refreshed a paper and came to the lines that apply
\* the fallback title and abstract.
FallbackOffered ==
    /\ landing_step # NoStep
    /\ landing_step.applied

\* C24: the fallback replaces the title of a paper only if the title it
\* had is empty or looks non-English at threshold 0.35, and the abstract
\* only if the abstract it had is a placeholder or looks non-English at
\* threshold 0.45; a title that is neither is kept when the abstract
\* triggered the fallback, and the reverse.
C24_FallbackOnlyWhereNeeded ==
    landing_step # NoStep =>
        /\ LastPaper.title # landing_step.before.title =>
               /\ landing_step.applied
               /\ \/ collapse_ws(landing_step.before.title) = << >>
                  \/ looks_non_english(collapse_ws(landing_step.before.title), 35)
        /\ LastPaper.abstract # landing_step.before.abstract =>
               /\ landing_step.applied
               /\ \/ is_placeholder_abstract(collapse_ws(landing_step.before.abstract))
                  \/ looks_non_english(collapse_ws(landing_step.before.abstract), 45)

\* The page of a paper with an English title and a placeholder abstract
\* gave a title and an abstract: the abstract was replaced, the title
\* kept.
C24_Witness ==
    /\ FallbackOffered
    /\ landing_step.found.title = TITLE_ENGLISH
    /\ landing_step.found.abstract = ABSTRACT_ALLOCATOR
    /\ landing_step.before.title = TITLE_LOOPS
    /\ is_placeholder_abstract(landing_step.before.abstract)
    /\ LastPaper.title = TITLE_LOOPS
    /\ LastPaper.abstract = ABSTRACT_ALLOCATOR

\* The reverse: the title of a paper with a real English abstract was
\* replaced, the abstract kept.
C24_TitleOnly ==
    /\ FallbackOffered
    /\ landing_step.found.title = TITLE_ENGLISH
    /\ landing_step.found.abstract = ABSTRACT_ALLOCATOR
    /\ landing_step.before.title = TITLE_CJK
    /\ LastPaper.title = TITLE_ENGLISH
    /\ LastPaper.abstract = landing_step.before.abstract
    /\ LastPaper.abstract # << >>

\* The fallback title and abstract the last iteration had when it came to
\* the lines that apply them: what the probe found, or what the cache
\* held.
OfferedTitle ==
    IF landing_step.probed
    THEN landing_step.found.title
    ELSE collapse_ws(landing_step.entry.title)

OfferedAbstract ==
    IF landing_step.probed
    THEN landing_step.found.abstract
    ELSE collapse_ws(landing_step.entry.abstract)

LowQualityOffered ==
    /\ FallbackOffered
    /\ OfferedTitle # << >>
    /\ _is_low_quality_fallback_title(OfferedTitle, landing_step.before.publication,
                                      landing_step.before.venue)

\* C25: a low-quality fallback title, freshly probed or read from the
\* cache, is never written to the paper; the title of the cache entry of
\* the paper is cleared and its status is miss when the entry has no
\* abstract, hit otherwise.
C25_LowQualityTitleDropped ==
    LowQualityOffered =>
        /\ LastPaper.title = landing_step.before.title
        /\ landing_step.short_id \in DOMAIN landing_cache
        /\ landing_cache[landing_step.short_id].title = << >>
        /\ landing_cache[landing_step.short_id].status =
               IF OfferedAbstract = << >> THEN STATUS_MISS ELSE STATUS_HIT

\* The cache held a sentinel title and no abstract for a paper that is not
\* probed: the entry is a miss without a title now.
C25_Witness ==
    /\ LowQualityOffered
    /\ ~landing_step.probed
    /\ landing_step.entry.title = TITLE_PROJECT
    /\ landing_cache[landing_step.short_id].status = STATUS_MISS

\* A probe found the venue of the paper for a title, with an abstract: the
\* paper needed a title and did not get this one, the entry is a hit.
C25_ProbedVenue ==
    /\ LowQualityOffered
    /\ landing_step.probed
    /\ landing_step.found.title = TITLE_VENUE
    /\ landing_step.found.title = landing_step.before.venue
    /\ collapse_ws(landing_step.before.title) = << >>
    /\ LastPaper.abstract = landing_step.found.abstract
    /\ landing_cache[landing_step.short_id].status = STATUS_HIT

\* A probe found a sentinel title and no abstract: the entry is a miss.
C25_ProbedSentinel ==
    /\ LowQualityOffered
    /\ landing_step.probed
    /\ landing_step.found.title = TITLE_PROJECT
    /\ landing_cache[landing_step.short_id].status = STATUS_MISS

\* The last iteration, in the run that is under way, was for a refreshed
\* paper that needed a probe with the landing fallback enabled.
NeededProbe ==
    /\ landing_pc = "refresh"
    /\ landing_step # NoStep
    /\ landing_step.refreshed
    /\ ~landing_args.skip_landing_fallback
    /\ should_try_landing_fallback(landing_step.before)
    /\ ShouldProbe(landing_step.entry, landing_step.work_updated,
                   landing_args.landing_miss_recheck_days, landing_day)

BudgetUsed ==
    /\ landing_args.landing_max_probes > 0
    /\ landing_step.probes_before >= landing_args.landing_max_probes

\* C28: with a positive landing_max_probes the probes of a call never
\* exceed it; a paper that needs a probe after the budget is used is
\* counted as skipped, gets no fallback, and its cache entry is unchanged.
C28_ProbeBudgetKept ==
    /\ (landing_pc = "refresh" /\ landing_args.landing_max_probes > 0) =>
           landing_probes <= landing_args.landing_max_probes
    /\ (NeededProbe /\ BudgetUsed) =>
           /\ ~landing_step.probed
           /\ ~landing_step.applied
           /\ landing_probes = landing_step.probes_before
           /\ landing_skipped_budget = landing_step.skipped_before + 1
           /\ LastPaper = landing_step.before
           /\ EntryOf(landing_cache, landing_step.short_id) = landing_step.entry
    /\ (NeededProbe /\ ~BudgetUsed) =>
           /\ landing_step.probed
           /\ landing_probes = landing_step.probes_before + 1
           /\ landing_skipped_budget = landing_step.skipped_before

\* The budget of one probe went to an earlier paper; the last paper has an
\* empty title, no cache entry, and was skipped.
C28_Witness ==
    /\ NeededProbe
    /\ BudgetUsed
    /\ landing_step.probes_before = MaxProbeBudget
    /\ landing_step.short_id \notin DOMAIN landing_cache
    /\ collapse_ws(LastPaper.title) = << >>
    /\ landing_skipped_budget >= 1

\* The paper the next iteration is for has no resolvable short id, or
\* OpenAlex returned no work for it.
NextPaperHasNoWork ==
    /\ landing_pc = "refresh"
    /\ landing_idx <= Len(landing_papers)
    /\ \/ normalize_openalex_short_id(landing_papers[landing_idx].openalexId) = << >>
       \/ normalize_openalex_short_id(landing_papers[landing_idx].openalexId)
              \notin DOMAIN landing_works

FallbackDisabled ==
    /\ landing_pc = "refresh"
    /\ landing_args.skip_landing_fallback

\* C30: apply_openalex_refresh leaves a paper without a resolvable short
\* id or without a work as it was, probes no page for it and writes no
\* cache entry; with the landing fallback disabled no iteration probes a
\* page or changes the cache.
C30_NoWorkNoChange ==
    [][/\ NextPaperHasNoWork =>
              /\ landing_papers' = landing_papers
              /\ landing_cache' = landing_cache
              /\ landing_probes' = landing_probes
              /\ landing_skipped_budget' = landing_skipped_budget
              /\ landing_probed_on' = landing_probed_on
       /\ FallbackDisabled =>
              /\ landing_cache' = landing_cache
              /\ landing_probes' = landing_probes
              /\ landing_probed_on' = landing_probed_on
              /\ landing_cache_file' = landing_cache_file]_vars

\* With the fallback enabled and no budget, the last iteration was for a
\* paper with a non-English title whose id names no work OpenAlex
\* returned: it was not refreshed and not probed.
C30_Witness ==
    /\ landing_pc = "refresh"
    /\ landing_step # NoStep
    /\ ~landing_step.refreshed
    /\ ~landing_step.probed
    /\ landing_step.short_id = SHORT_W3
    /\ ~landing_args.skip_landing_fallback
    /\ landing_args.landing_max_probes = 0
    /\ looks_non_english(LastPaper.title, 35)
    /\ LastPaper = LandingPapers[landing_idx - 1]
    /\ SHORT_W3 \notin DOMAIN landing_cache

\* The same for a paper whose id is not the id of a work.
C30_NoShortId ==
    /\ landing_pc = "refresh"
    /\ landing_step # NoStep
    /\ ~landing_step.refreshed
    /\ landing_step.short_id = << >>
    /\ ~landing_args.skip_landing_fallback
    /\ LastPaper = LandingPapers[landing_idx - 1]
    /\ LastPaper.openalexId = OPENALEX_AUTHOR_ID

\* A call with the fallback disabled came to its end: papers that pass
\* should_try_landing_fallback were refreshed, none was probed and the
\* cache is the one that was loaded.
C30_Disabled ==
    /\ FallbackDisabled
    /\ landing_idx > Len(landing_papers)
    /\ landing_probes = 0
    /\ landing_cache = landing_cache_file
    /\ \E i \in 1..Len(landing_papers) :
           /\ landing_papers[i] # LandingPapers[i]
           /\ should_try_landing_fallback(landing_papers[i])

=============================================================================
